---- MODULE Spec2Model ----
(***************************************************************************)
(* A model of the DICOM header comparison and clustering engine of boyle   *)
(* (boyle/dicom/comparison.py): the distance measures between two header   *)
(* records, the greedy exact-match grouping, and the merge of groups of    *)
(* the clustering facade.                                                  *)
(***************************************************************************)
EXTENDS Integers, Sequences, FiniteSets, Bags, TLC

(***************************************************************************)
(* Bounds of the model.                                                    *)
(***************************************************************************)
\* the largest weight a field weight table gives to a field
MaxWeight == 2
\* the number of file paths
NumPaths == 3
\* the longest list of paths handed to group_dicom_files
MaxFiles == 3
\* the longest list of (target, source) pairs of one merge_groups call
MaxPairs == 2
\* the largest entry of a distance matrix, in units of 1/MaxDist
MaxDist == 2
\* the largest number of items of a table
MaxItems == 2
\* the number of mask images
NumMasks == 2
\* the largest number of sections of the rcfiles
MaxSections == 2

(***************************************************************************)
(* Header records.  A record maps a field name to a value; a value is a    *)
(* string (a sequence of characters), an integer, or absent.               *)
(***************************************************************************)
Fields == {"PatientID", "Name"}

Missing == [t |-> "missing", s |-> <<>>, n |-> 0]
StrV(s) == [t |-> "str", s |-> s, n |-> 0]
IntV(n) == [t |-> "int", s |-> <<>>, n |-> n]

PatientIDValues == {Missing, IntV(12), StrV(<<"1", "2">>), StrV(<<"X", "Y">>)}
NameValues ==
  {Missing, StrV(<<>>), StrV(<<"J", "o", "h", "n">>), StrV(<<"J", "o", "n">>),
   StrV(<<"X", "Y">>)}

Records == {[PatientID |-> p, Name |-> m] : p \in PatientIDValues, m \in NameValues}

\* hasattr(dcm, field_name)
HasAttr(dcm, field_name) ==
  /\ field_name \in DOMAIN dcm
  /\ dcm[field_name].t # "missing"

DigitChars == <<"0", "1", "2", "3", "4", "5", "6", "7", "8", "9">>

RECURSIVE Digits(_)
Digits(n) ==
  IF n < 10 THEN <<DigitChars[n + 1]>>
  ELSE Digits(n \div 10) \o <<DigitChars[(n % 10) + 1]>>

\* str(value) of a present value
Str(v) == IF v.t = "int" THEN Digits(v.n) ELSE v.s

\* str(getattr(dcm, field_name, ''))
StrGetattrDefault(dcm, field_name) ==
  IF HasAttr(dcm, field_name) THEN Str(dcm[field_name]) ELSE <<>>

(***************************************************************************)
(* Field weight tables: a dict, kept as the sequence of its items in       *)
(* insertion order.                                                        *)
(***************************************************************************)
Item(name, weight) == [name |-> name, weight |-> weight]

Weights == 0..MaxWeight

WeightTables ==
  {<<>>}
  \cup {<<Item(f, w)>> : f \in Fields, w \in Weights}
  \cup UNION {{<<Item(f, w), Item(g, v)>> : g \in Fields \ {f}, w \in Weights, v \in Weights} :
             f \in Fields}

Keys(d) == [i \in 1..Len(d) |-> d[i].name]

HasKey(d, name) == \E i \in 1..Len(d) : d[i].name = name

Lookup(d, name) == d[CHOOSE i \in 1..Len(d) : d[i].name = name].weight

\* d.pop(name, '')
Pop(d, name) == SelectSeq(d, LAMBDA it : it.name # name)

RECURSIVE SumValues(_)
\* sum(tuple(d.values()))
SumValues(d) == IF d = <<>> THEN 0 ELSE Head(d).weight + SumValues(Tail(d))

RECURSIVE DictFromList(_, _)
\* {fn: 1 for fn in field_weights}: a repeated name keeps its first position
DictFromList(names, acc) ==
  IF names = <<>> THEN acc
  ELSE DictFromList(Tail(names),
         IF HasKey(acc, Head(names)) THEN acc ELSE Append(acc, Item(Head(names), 1)))

(***************************************************************************)
(* Return values of transform.                                             *)
(***************************************************************************)
Ret(kind, b, num, den) == [kind |-> kind, b |-> b, num |-> num, den |-> den]

NoReturn == Ret("none", FALSE, 0, 1)
Inf == Ret("inf", FALSE, 0, 1)
Bool(b) == Ret("bool", b, 0, 1)
Num(num, den) == Ret("num", FALSE, num, den)
Raise(exc) == Ret(exc, FALSE, 0, 1)

(***************************************************************************)
(* Levenshtein.ratio(s1, s2): (lensum - ldist) / lensum, where ldist is    *)
(* the edit distance in which a substitution costs 2.                      *)
(***************************************************************************)
Min2(a, b) == IF a <= b THEN a ELSE b

RECURSIVE EditDistance(_, _)
EditDistance(s1, s2) ==
  IF s1 = <<>> THEN Len(s2)
  ELSE IF s2 = <<>> THEN Len(s1)
  ELSE IF Head(s1) = Head(s2) THEN EditDistance(Tail(s1), Tail(s2))
  ELSE Min2(1 + EditDistance(Tail(s1), s2),
            Min2(1 + EditDistance(s1, Tail(s2)),
                 2 + EditDistance(Tail(s1), Tail(s2))))

\* the ratio as the fraction <<numerator, denominator>>
Ratio(s1, s2) ==
  LET lensum == Len(s1) + Len(s2)
  IN IF lensum = 0 THEN <<1, 1>>
     ELSE <<lensum - EditDistance(s1, s2), lensum>>

(***************************************************************************)
(* Fractions <<numerator, denominator>> with a positive denominator stand  *)
(* for the real numbers the distance is computed with.                     *)
(***************************************************************************)
FracAdd(x, y) == <<x[1] * y[2] + y[1] * x[2], x[2] * y[2]>>
FracMul(x, y) == <<x[1] * y[1], x[2] * y[2]>>
FracSub(x, y) == <<x[1] * y[2] - y[1] * x[2], x[2] * y[2]>>
FracPositive(x) == x[1] > 0

(***************************************************************************)
(* The state: a distance object (SimpleDicomFileDistance or its subclass   *)
(* LevenshteinDicomFileDistance), the locals of group_dicom_files, and the *)
(* group store of the clustering facade.                                   *)
(***************************************************************************)
VARIABLES
  cls,              \* the class of the distance object
  dcmf1,            \* self.dcmf1: <<>> for None, <<record>> when set
  dcmf2,            \* self.dcmf2
  field_weights,    \* self.field_weights
  ret,              \* what the last call on the distance object returned
  files,            \* the header record DicomFile(path) reads for each path
  dicom_file_paths, \* the argument of group_dicom_files
  path_list,        \* its local pool of paths
  file_path1,       \* the seed of the group being built
  file_subgroup,    \* the members of the group being built
  j,                \* the index of the inner scan
  path_groups,      \* the ordered dict of groups built so far
  pc,               \* the position in group_dicom_files
  dicom_groups,     \* self.dicom_groups of the facade
  old_groups,       \* self.dicom_groups before the last merge_groups call
  indices,          \* the argument of the last merge_groups call
  merge_ret         \* how the last merge_groups call ended

distVars == <<cls, dcmf1, dcmf2, field_weights, ret>>
groupVars ==
  <<files, dicom_file_paths, path_list, file_path1, file_subgroup, j, path_groups, pc>>
storeVars == <<dicom_groups, old_groups, indices, merge_ret>>

VARIABLES
  trio,             \* three header records whose pairs are compared
  relation          \* the results of transform on the pairs compared so far

VARIABLES
  self_field_weights,    \* self.field_weights of the facade (its header_fields)
  self_dist_method_cls,  \* self._dist_method_cls of the facade
  weights_none,          \* whether field_weights of the distance object is None
  dicom_files,           \* the argument of calculate_file_distances
  file_dists,            \* the matrix of calculate_file_distances
  idxi,                  \* the row index of calculate_file_distances
  idxj,                  \* the column index of calculate_file_distances
  dist_pc,               \* the position in calculate_file_distances
  call,                  \* the entry point of the call and its field_weights argument
  call_ret               \* how the call ended

VARIABLES
  dist_matrix,           \* the matrix handed to dist_percentile_threshold
  triu_k,                \* its argument k
  perc_thr,              \* its argument perc_thr, -1 before the first call
  upper,                 \* the matrix it returned
  prev_perc_thr,         \* perc_thr of the call before
  prev_upper             \* the matrix the call before returned

VARIABLES
  folder_depth,          \* the argument of get_groups_in_same_folder, 0 before the call
  group_pairs            \* the list it returned

VARIABLES
  unique_args,           \* field_name and field_to_use_as_key of the last call
  unique_vals,           \* what get_unique_field_values_per_group returned
  unique_ret             \* how that call ended

VARIABLES
  fs,                    \* the paths that exist under folder_path (<<>> is folder_path)
  groupby_field_name,    \* the argument of move_to_folder
  group_folder,          \* the folder of the group being copied
  copy_g,                \* the index of the group being copied
  copy_f,                \* the index of the member to copy next
  copied,                \* the copies made so far: source, destination, overwritten
  copy_pc,               \* the position in copy_groups_to_folder
  move_ret               \* how move_to_folder ended

exactVars == <<trio, relation>>
copyVars ==
  <<fs, groupby_field_name, group_folder, copy_g, copy_f, copied, copy_pc, move_ret>>
uniqueVars == <<unique_args, unique_vals, unique_ret>>
folderVars == <<folder_depth, group_pairs>>
thresholdVars == <<dist_matrix, triu_k, perc_thr, upper, prev_perc_thr, prev_upper>>
matrixVars ==
  <<self_field_weights, self_dist_method_cls, weights_none, dicom_files, file_dists,
    idxi, idxj, dist_pc, call, call_ret>>
VARIABLES
  db_table,              \* the items of the table, the item of eid n at index n
  old_table,             \* the items before the last call
  db_call,               \* the last call on the table and its arguments
  db_ret                 \* how that call ended

VARIABLES
  img_ndim,              \* the number of dimensions of self.img of the NeuroImage
  self_mask,             \* self.mask: 0 for None, else the mask image set
  self_data,             \* self.data: what the cached array holds
  self_is_data_masked,   \* self._is_data_masked
  ni_call,               \* the last call on the NeuroImage and its arguments
  ni_ret,                \* what that call returned
  ni_old                 \* self.data and self._is_data_masked before that call

VARIABLES
  rc_config,             \* the sections the rcfiles of the application hold, in order
  rc_environ,            \* the variables the environment holds for the application
  rc_call,               \* the last call and its arguments
  rc_ret                 \* how that call ended

dbVars == <<db_table, old_table, db_call, db_ret>>
imageVars == <<img_ndim, self_mask, self_data, self_is_data_masked, ni_call, ni_ret, ni_old>>
rcVars == <<rc_config, rc_environ, rc_call, rc_ret>>
toolVars == <<dbVars, imageVars, rcVars>>
facadeVars ==
  <<exactVars, matrixVars, thresholdVars, folderVars, uniqueVars, copyVars, toolVars>>
vars == <<distVars, groupVars, storeVars, facadeVars>>

None == <<>>
Simple == "SimpleDicomFileDistance"
Levenshtein == "LevenshteinDicomFileDistance"

(***************************************************************************)
(* SimpleDicomFileDistance.transform                                       *)
(***************************************************************************)
\* a plausible slip: the loop returns True after its first field
SimpleTransformFirstField(d1, d2, fw) ==
  IF d1 = None \/ d2 = None THEN Inf
  ELSE IF fw # <<>>
          /\ StrGetattrDefault(d1[1], fw[1].name) # StrGetattrDefault(d2[1], fw[1].name)
       THEN Bool(FALSE)
       ELSE Bool(TRUE)

\* a plausible slip: str() is applied to the value of the second record only
SimpleTransformRawFirst(d1, d2, fw) ==
  IF d1 = None \/ d2 = None THEN Inf
  ELSE IF \E i \in 1..Len(fw) :
            (IF HasAttr(d1[1], fw[i].name) THEN d1[1][fw[i].name] ELSE StrV(<<>>))
              # StrV(StrGetattrDefault(d2[1], fw[i].name))
       THEN Bool(FALSE)
       ELSE Bool(TRUE)

SimpleTransform(d1, d2, fw) ==
  IF d1 = None \/ d2 = None THEN Inf
  ELSE IF \E i \in 1..Len(fw) :
            StrGetattrDefault(d1[1], fw[i].name) # StrGetattrDefault(d2[1], fw[i].name)
       THEN Bool(FALSE)
       ELSE Bool(TRUE)

(***************************************************************************)
(* LevenshteinDicomFileDistance.transform.  The loop iterates over the     *)
(* local copy of the weight table while the handlers of a missing          *)
(* attribute pop from that copy: the dict iterator raises RuntimeError at  *)
(* its next step once the size of the dict has changed.                    *)
(***************************************************************************)
\* simil = self.similarity_measure(str1, str2) if str1 != str2 else 1
Similarity(str1, str2) == IF str1 # str2 THEN Ratio(str1, str2) ELSE <<1, 1>>

\* a plausible slip: the similarity itself is accumulated as the distance
FieldDistanceOfSimilarity(simil, weight, sum_weights) ==
  FracMul(simil, <<weight, sum_weights>>)

\* (1-simil) * (weight/sum_weights)
FieldDistance(simil, weight, sum_weights) ==
  FracMul(FracSub(<<1, 1>>, simil), <<weight, sum_weights>>)

RECURSIVE LevLoop(_, _, _, _, _, _, _)
LevLoop(d1, d2, self_fw, keys, i, fw, dist) ==
  IF Len(fw) # Len(keys) THEN Raise("RuntimeError")
  ELSE IF i > Len(keys)
  THEN IF Len(fw) = 0 THEN Num(1, 1) ELSE Num(dist[1], dist[2])
  ELSE
    LET field_name == keys[i]
        miss1 == ~HasAttr(d1, field_name)
        miss2 == ~HasAttr(d2, field_name)
        str1 == IF miss1 THEN <<>> ELSE Str(d1[field_name])
        str2 == IF miss2 THEN <<>> ELSE Str(d2[field_name])
        popped == IF miss1 \/ miss2 THEN Pop(fw, field_name) ELSE fw
    IN IF str1 = <<>> \/ str2 = <<>>
       THEN LevLoop(d1, d2, self_fw, keys, i + 1, popped, dist)
       ELSE
         LET sum_weights == SumValues(popped)
             simil == Similarity(str1, str2)
             weight == Lookup(self_fw, field_name)
         IN IF sum_weights = 0 THEN Num(1, 1)
            ELSE IF FracPositive(simil)
            THEN LevLoop(d1, d2, self_fw, keys, i + 1, popped,
                         FracAdd(dist, FieldDistance(simil, weight, sum_weights)))
            ELSE LevLoop(d1, d2, self_fw, keys, i + 1, popped, dist)

\* a plausible slip: the weight table is validated before the records
LevenshteinTransformWeightsFirst(d1, d2, fw) ==
  IF Len(fw) = 0 THEN Raise("ValueError")
  ELSE IF d1 = None \/ d2 = None THEN Inf
  ELSE LevLoop(d1[1], d2[1], fw, Keys(fw), 1, fw, <<0, 1>>)

\* a plausible slip: the check of lines 167-168 is left out
LevenshteinTransformUnvalidated(d1, d2, fw) ==
  IF d1 = None \/ d2 = None THEN Inf
  ELSE LevLoop(d1[1], d2[1], fw, Keys(fw), 1, fw, <<0, 1>>)

LevenshteinTransform(d1, d2, fw) ==
  IF d1 = None \/ d2 = None THEN Inf
  ELSE IF Len(fw) = 0 THEN Raise("ValueError")
  ELSE LevLoop(d1[1], d2[1], fw, Keys(fw), 1, fw, <<0, 1>>)

(***************************************************************************)
(* The operations of a distance object.                                    *)
(***************************************************************************)
set_dicom_file1(dcm_file) ==
  /\ dcmf1' = <<dcm_file>>
  /\ ret' = NoReturn
  /\ UNCHANGED <<cls, dcmf2, field_weights>>

set_dicom_file2(dcm_file) ==
  /\ dcmf2' = <<dcm_file>>
  /\ ret' = NoReturn
  /\ UNCHANGED <<cls, dcmf1, field_weights>>

\* the table the loop of lines 172-201 leaves in its local field_weights: the
\* handlers of a missing attribute pop from it until the loop ends
RECURSIVE PoppedByLoop(_, _, _, _, _)
PoppedByLoop(d1, d2, keys, i, fw) ==
  IF Len(fw) # Len(keys) \/ i > Len(keys) THEN fw
  ELSE
    LET field_name == keys[i]
        miss1 == ~HasAttr(d1, field_name)
        miss2 == ~HasAttr(d2, field_name)
        str1 == IF miss1 THEN <<>> ELSE Str(d1[field_name])
        str2 == IF miss2 THEN <<>> ELSE Str(d2[field_name])
        popped == IF miss1 \/ miss2 THEN Pop(fw, field_name) ELSE fw
    IN IF str1 # <<>> /\ str2 # <<>> /\ SumValues(popped) = 0 THEN popped
       ELSE PoppedByLoop(d1, d2, keys, i + 1, popped)

\* the two dict objects of the weighted transform after the call: the one
\* self.field_weights refers to and the one the local field_weights refers
\* to, which is the same object when `shared`
WeightObjects(d1, d2, fw, shared) ==
  LET popped == IF d1 = None \/ d2 = None \/ Len(fw) = 0 THEN fw
                ELSE PoppedByLoop(d1[1], d2[1], Keys(fw), 1, fw)
  IN [self |-> IF shared THEN popped ELSE fw, local |-> popped]

\* a plausible slip: field_weights = self.field_weights, without the copy
SelfWeightsAfterShared(d1, d2, fw) == WeightObjects(d1, d2, fw, TRUE).self

\* self.field_weights after the weighted transform: line 170 makes the local
\* table a copy, so it is another object
SelfWeightsAfter(d1, d2, fw) == WeightObjects(d1, d2, fw, FALSE).self

transform ==
  /\ ret' = IF cls = Simple
            THEN SimpleTransform(dcmf1, dcmf2, field_weights)
            ELSE LevenshteinTransform(dcmf1, dcmf2, field_weights)
  /\ field_weights' = IF cls = Simple THEN field_weights
                      ELSE SelfWeightsAfter(dcmf1, dcmf2, field_weights)
  /\ UNCHANGED <<cls, dcmf1, dcmf2>>

IdleGroup ==
  /\ files = <<>>
  /\ dicom_file_paths = <<>>
  /\ path_list = <<>>
  /\ file_path1 = 0
  /\ file_subgroup = <<>>
  /\ j = 0
  /\ path_groups = <<>>
  /\ pc = "idle"

IdleStore ==
  /\ dicom_groups = <<>>
  /\ old_groups = <<>>
  /\ indices = <<>>
  /\ merge_ret = [type |-> "none", msg |-> "", names |-> {}]

IdleExact ==
  /\ trio = <<>>
  /\ relation = <<>>

IdleMatrix ==
  /\ self_field_weights = <<>>
  /\ self_dist_method_cls = Levenshtein
  /\ weights_none = FALSE
  /\ dicom_files = <<>>
  /\ file_dists = <<>>
  /\ idxi = 0
  /\ idxj = 0
  /\ dist_pc = "idle"
  /\ call = <<>>
  /\ call_ret = NoReturn

IdleThreshold ==
  /\ dist_matrix = <<>>
  /\ triu_k = 0
  /\ perc_thr = -1
  /\ upper = <<>>
  /\ prev_perc_thr = -1
  /\ prev_upper = <<>>

IdleFolder ==
  /\ folder_depth = 0
  /\ group_pairs = <<>>

IdleUnique ==
  /\ unique_args = <<>>
  /\ unique_vals = <<>>
  /\ unique_ret = [type |-> "none", msg |-> "", names |-> {}]

IdleCopy ==
  /\ fs = {}
  /\ groupby_field_name = <<>>
  /\ group_folder = <<>>
  /\ copy_g = 0
  /\ copy_f = 0
  /\ copied = <<>>
  /\ copy_pc = "idle"
  /\ move_ret = [type |-> "none", msg |-> "", names |-> {}]

IdleTable ==
  /\ db_table = <<>>
  /\ old_table = <<>>
  /\ db_call = <<>>
  /\ db_ret = <<>>

IdleImage ==
  /\ img_ndim = 0
  /\ self_mask = 0
  /\ self_data = <<>>
  /\ self_is_data_masked = FALSE
  /\ ni_call = <<>>
  /\ ni_ret = <<>>
  /\ ni_old = <<>>

IdleConfig ==
  /\ rc_config = <<>>
  /\ rc_environ = <<>>
  /\ rc_call = <<>>
  /\ rc_ret = <<>>

IdleTools == IdleTable /\ IdleImage /\ IdleConfig

IdleFacade ==
  IdleExact /\ IdleMatrix /\ IdleThreshold /\ IdleFolder /\ IdleUnique /\ IdleCopy /\ IdleTools

\* SimpleDicomFileDistance.__init__ with a dict of field weights
InitDist ==
  /\ cls \in {Simple, Levenshtein}
  /\ dcmf1 = None
  /\ dcmf2 = None
  /\ field_weights \in WeightTables
  /\ ret = NoReturn
  /\ IdleGroup
  /\ IdleStore
  /\ IdleFacade

SetFile1 == \E r \in Records : set_dicom_file1(r) /\ UNCHANGED <<groupVars, storeVars, facadeVars>>
SetFile2 == \E r \in Records : set_dicom_file2(r) /\ UNCHANGED <<groupVars, storeVars, facadeVars>>
Transform == transform /\ UNCHANGED <<groupVars, storeVars, facadeVars>>

NextDist == SetFile1 \/ SetFile2 \/ Transform

SpecDist == InitDist /\ [][NextDist]_vars

(***************************************************************************)
(* group_dicom_files(dicom_file_paths, header_fields), one action for each *)
(* step of its loops.  The local object dist is the distance object of the *)
(* state; DicomFile(path) reads the record files[path].  Python indexes    *)
(* path_list from 0, the sequence from 1.                                  *)
(***************************************************************************)
Paths == 1..NumPaths

RecA == [PatientID |-> IntV(12), Name |-> StrV(<<"J", "o", "h", "n">>)]
RecB == [PatientID |-> StrV(<<"1", "2">>), Name |-> StrV(<<"J", "o", "h", "n">>)]
RecC == [PatientID |-> StrV(<<"1", "2">>), Name |-> Missing]
RecD == [PatientID |-> StrV(<<"X", "Y">>), Name |-> StrV(<<>>)]
GroupRecords == {RecA, RecB, RecC, RecD}

HeaderFieldLists ==
  {<<>>, <<"PatientID">>, <<"Name">>, <<"PatientID", "Name">>, <<"Name", "Name">>}

SeqsUpTo(S, n) == UNION {[1..m -> S] : m \in 0..n}

Group(key, items) == [key |-> key, items |-> items]

\* list.pop(j) for a 0-based index j: the list without that element
PopAt(list, idx) == SubSeq(list, 1, idx) \o SubSeq(list, idx + 2, Len(list))

\* a plausible slip: the matched path stays in the pool
PoolKeepsMatch(list, idx) == list

\* path_list.pop(j) after a match
PoolAfterMatch(list, idx) == PopAt(list, idx)

\* path_groups[key].from_set(items, check_if_dicoms=False) on the
\* insertion-ordered dict: a new key goes to the end, a present key keeps
\* its position
SetGroup(groups, key, items) ==
  IF \E i \in 1..Len(groups) : groups[i].key = key
  THEN [i \in 1..Len(groups) |->
          IF groups[i].key = key THEN Group(key, items) ELSE groups[i]]
  ELSE Append(groups, Group(key, items))

\* bool(dist.transform())
Truthy(r) == r.kind = "inf" \/ (r.kind = "bool" /\ r.b) \/ (r.kind = "num" /\ r.num # 0)

\* lines 228-232: the distance object, the copy of the input, the empty dict
InitGroup ==
  /\ cls = Simple
  /\ dcmf1 = None
  /\ dcmf2 = None
  /\ field_weights \in {DictFromList(h, <<>>) : h \in HeaderFieldLists}
  /\ ret = NoReturn
  /\ files \in [Paths -> GroupRecords]
  /\ dicom_file_paths \in SeqsUpTo(Paths, MaxFiles)
  /\ path_list = dicom_file_paths
  /\ file_path1 = 0
  /\ file_subgroup = <<>>
  /\ j = 0
  /\ path_groups = <<>>
  /\ pc = "while"
  /\ IdleStore
  /\ IdleFacade

\* a plausible slip: the seed is read from the end of the pool without being
\* taken out of it, and the scan starts below it
PopSeedPeek ==
  /\ pc = "while"
  /\ Len(path_list) > 0
  /\ file_path1' = path_list[Len(path_list)]
  /\ path_list' = path_list
  /\ file_subgroup' = <<file_path1'>>
  /\ set_dicom_file1(files[file_path1'])
  /\ j' = Len(path_list') - 2
  /\ pc' = "scan"
  /\ UNCHANGED <<files, dicom_file_paths, path_groups, storeVars, facadeVars>>

\* lines 234-239: take the last path of the pool as the seed of a new group
PopSeed ==
  /\ pc = "while"
  /\ Len(path_list) > 0
  /\ file_path1' = path_list[Len(path_list)]
  /\ path_list' = SubSeq(path_list, 1, Len(path_list) - 1)
  /\ file_subgroup' = <<file_path1'>>
  /\ set_dicom_file1(files[file_path1'])
  /\ j' = Len(path_list') - 1
  /\ pc' = "scan"
  /\ UNCHANGED <<files, dicom_file_paths, path_groups, storeVars, facadeVars>>

\* lines 240-248: compare the seed with the path at index j
Scan ==
  /\ pc = "scan"
  /\ j >= 0
  /\ LET file_path2 == path_list[j + 1]
         result == SimpleTransform(dcmf1, <<files[file_path2]>>, field_weights)
     IN /\ dcmf2' = <<files[file_path2]>>
        /\ ret' = result
        /\ IF Truthy(result)
           THEN /\ file_subgroup' = Append(file_subgroup, file_path2)
                /\ path_list' = PoolAfterMatch(path_list, j)
           ELSE UNCHANGED <<file_subgroup, path_list>>
  /\ j' = j - 1
  /\ UNCHANGED <<cls, dcmf1, field_weights>>
  /\ UNCHANGED <<files, dicom_file_paths, file_path1, path_groups, pc, storeVars, facadeVars>>

\* line 249: the scan is over, the group is stored under its seed
StoreGroup ==
  /\ pc = "scan"
  /\ j < 0
  /\ path_groups' = SetGroup(path_groups, file_path1, file_subgroup)
  /\ pc' = "while"
  /\ UNCHANGED <<distVars, files, dicom_file_paths, path_list, file_path1,
                 file_subgroup, j, storeVars, facadeVars>>

\* line 251: the pool is empty
ReturnGroups ==
  /\ pc = "while"
  /\ Len(path_list) = 0
  /\ pc' = "done"
  /\ UNCHANGED <<distVars, files, dicom_file_paths, path_list, file_path1,
                 file_subgroup, j, path_groups, storeVars, facadeVars>>

NextGroup == PopSeed \/ Scan \/ StoreGroup \/ ReturnGroups

SpecGroup == InitGroup /\ [][NextGroup]_vars

\* the function is straight-line sequential code: the interpreter always
\* executes the next statement, so a step that is possible is taken
SpecGroupFair == InitGroup /\ [][NextGroup]_vars /\ WF_vars(NextGroup)

(***************************************************************************)
(* The group store of DicomFilesClustering and merge_groups.  An           *)
(* exception is its type, its message and the numbers its message names.   *)
(***************************************************************************)
Exc(type, msg, names) == [type |-> type, msg |-> msg, names |-> names]

NoCall == Exc("none", "", {})
Ok == Exc("ok", "", {})

\* DicomFilesClustering.num_files
num_files(groups) ==
  LET RECURSIVE Total(_)
      Total(i) == IF i = 0 THEN 0 ELSE Len(groups[i].items) + Total(i - 1)
  IN Total(Len(groups))

ItemsOf(groups, key) == groups[CHOOSE i \in 1..Len(groups) : groups[i].key = key].items

\* rdict[key].extend(items)
Extend(groups, key, items) ==
  [i \in 1..Len(groups) |->
     IF groups[i].key = key THEN Group(key, groups[i].items \o items) ELSE groups[i]]

\* rdict.pop(key, '') for every key of the set
PopKeys(groups, keys) == SelectSeq(groups, LAMBDA g : g.key \notin keys)

OffendingPairs(pairs, n) ==
  {k \in 1..Len(pairs) : \E c \in 1..2 : pairs[k][c] < 0 \/ pairs[k][c] >= n}

FirstOffending(pairs, n) ==
  LET k == CHOOSE x \in OffendingPairs(pairs, n) : \A y \in OffendingPairs(pairs, n) : x <= y
  IN IF pairs[k][1] < 0 \/ pairs[k][1] >= n THEN pairs[k][1] ELSE pairs[k][2]

\* a plausible slip: every pair is applied, whatever the earlier pairs did
RECURSIVE MergeLoopUnguarded(_, _, _, _, _)
MergeLoopUnguarded(rdict, dict_keys, pairs, consumed, guard) ==
  IF pairs = <<>> THEN [exc |-> Ok, dict |-> rdict, consumed |-> consumed]
  ELSE MergeLoopUnguarded(
         Extend(rdict, dict_keys[Head(pairs)[1] + 1],
                ItemsOf(rdict, dict_keys[Head(pairs)[2] + 1])),
         dict_keys, Tail(pairs), consumed \cup {Head(pairs)[2]}, guard)

\* the pairs in their order: the source is appended to the target unless the
\* pair names one group twice or a group an earlier pair has consumed; such
\* a pair is skipped, or makes the call fail, as the guard says
RECURSIVE MergeLoop(_, _, _, _, _)
MergeLoop(rdict, dict_keys, pairs, consumed, guard) ==
  IF pairs = <<>> THEN [exc |-> Ok, dict |-> rdict, consumed |-> consumed]
  ELSE
    LET t == Head(pairs)[1]
        s == Head(pairs)[2]
    IN IF t = s \/ s \in consumed \/ t \in consumed
       THEN IF guard = "reject"
            THEN [exc |-> Exc("ValueError", "group consumed twice", {t, s}),
                  dict |-> rdict, consumed |-> consumed]
            ELSE MergeLoop(rdict, dict_keys, Tail(pairs), consumed, guard)
       ELSE MergeLoop(Extend(rdict, dict_keys[t + 1], ItemsOf(rdict, dict_keys[s + 1])),
                      dict_keys, Tail(pairs), consumed \cup {s}, guard)

\* a plausible slip: the indices are not validated first, so the pairs before
\* the first offending one have extended the lists, which the copy shares
merge_dict_of_lists_unchecked(adict, pairs, pop_later, guard) ==
  LET n == Len(adict)
      dict_keys == [i \in 1..n |-> adict[i].key]
      bad == OffendingPairs(pairs, n)
      upto == IF bad = {} THEN Len(pairs)
              ELSE (CHOOSE x \in bad : \A y \in bad : x <= y) - 1
      r == MergeLoop(adict, dict_keys, SubSeq(pairs, 1, upto), {}, guard)
  IN IF r.exc # Ok THEN [exc |-> r.exc, dict |-> adict]
     ELSE IF bad # {}
     THEN [exc |-> Exc("IndexError", "index out of range", {}), dict |-> r.dict]
     ELSE [exc |-> Ok,
           dict |-> IF pop_later
                    THEN PopKeys(r.dict, {dict_keys[x + 1] : x \in r.consumed})
                    ELSE r.dict]

\* merge_dict_of_lists(adict, indices, pop_later, copy=True): the indices
\* are validated first, the sources are removed after all the pairs; with an
\* exception, dict is what the failed call has left of adict
merge_dict_of_lists(adict, pairs, pop_later, guard) ==
  LET n == Len(adict)
      dict_keys == [i \in 1..n |-> adict[i].key]
  IN IF OffendingPairs(pairs, n) # {}
     THEN LET idx == FirstOffending(pairs, n)
          IN [exc |-> Exc("IndexError", "index out of range",
                          {idx, IF idx < 0 THEN 0 ELSE n}),
              dict |-> adict]
     ELSE LET r == MergeLoop(adict, dict_keys, pairs, {}, guard)
          IN IF r.exc # Ok THEN [exc |-> r.exc, dict |-> adict]
             ELSE [exc |-> Ok,
                   dict |-> IF pop_later
                            THEN PopKeys(r.dict, {dict_keys[x + 1] : x \in r.consumed})
                            ELSE r.dict]

\* a plausible slip: the call asks not to remove the merged sources
PopLaterOff == FALSE

\* the argument pop_later=True of the call in merge_groups
PopLater == TRUE

\* except IndexError: raise IndexError('Index out of range to merge DICOM groups.')
ReraiseIndexError(exc) ==
  IF exc.type = "IndexError"
  THEN Exc("IndexError", "Index out of range to merge DICOM groups.", {})
  ELSE exc

\* DicomFilesClustering.merge_groups(indices); pairs is zip(*indices)
merge_groups(pairs, guard) ==
  LET merged == merge_dict_of_lists(dicom_groups, pairs, PopLater, guard)
  IN /\ old_groups' = dicom_groups
     /\ indices' = pairs
     /\ IF merged.exc = Ok
        THEN /\ dicom_groups' = merged.dict
             /\ merge_ret' = Ok
        ELSE /\ dicom_groups' = merged.dict
             /\ merge_ret' = ReraiseIndexError(merged.exc)

\* the stores group_dicom_files can return, up to the names of the paths:
\* the members are numbered in the order of the store, every group is keyed
\* by its first member and no path is in two groups
RECURSIVE StoresFrom(_, _)
StoresFrom(first, count) ==
  IF count = 0 THEN {<<>>}
  ELSE UNION {{<<Group(first, [i \in 1..size |-> first + i - 1])>> \o rest :
                 rest \in StoresFrom(first + size, count - size)} :
              size \in 1..count}

InitialStores == UNION {StoresFrom(1, count) : count \in 0..NumPaths}

IdleDist ==
  /\ cls = Levenshtein
  /\ dcmf1 = None
  /\ dcmf2 = None
  /\ field_weights = <<>>
  /\ ret = NoReturn

InitMerge ==
  /\ dicom_groups \in InitialStores
  /\ old_groups = <<>>
  /\ indices = <<>>
  /\ merge_ret = NoCall
  /\ IdleDist
  /\ IdleGroup
  /\ IdleFacade

IndexPairs(n) == (-1..n) \X (-1..n)

\* the caller assembles the index pairs of its next call
AppendPair ==
  /\ merge_ret = NoCall
  /\ Len(indices) < MaxPairs
  /\ \E pair \in IndexPairs(Len(dicom_groups)) : indices' = Append(indices, pair)
  /\ UNCHANGED <<dicom_groups, old_groups, merge_ret, distVars, groupVars, facadeVars>>

MergeGroups ==
  /\ merge_ret = NoCall
  /\ \E guard \in {"reject", "skip"} : merge_groups(indices, guard)
  /\ UNCHANGED <<distVars, groupVars, facadeVars>>

\* the caller goes on after the call has returned or raised
NextCall ==
  /\ merge_ret # NoCall
  /\ indices' = <<>>
  /\ old_groups' = <<>>
  /\ merge_ret' = NoCall
  /\ UNCHANGED <<dicom_groups, distVars, groupVars, facadeVars>>

NextMerge == AppendPair \/ MergeGroups \/ NextCall

SpecMerge == InitMerge /\ [][NextMerge]_vars

(***************************************************************************)
(* Exact matching as a relation: a caller compares every ordered pair of   *)
(* three loaded records with fit_transform and keeps the answers.          *)
(***************************************************************************)
\* SimpleDicomFileDistance.fit_transform: fit, then transform
fit_transform(dcm_file1, dcm_file2) ==
  /\ dcmf1' = <<dcm_file1>>
  /\ dcmf2' = <<dcm_file2>>
  /\ ret' = IF cls = Simple
            THEN SimpleTransform(dcmf1', dcmf2', field_weights)
            ELSE LevenshteinTransform(dcmf1', dcmf2', field_weights)
  /\ UNCHANGED <<cls, field_weights>>

\* the k-th ordered pair of the three records, k = 0..8
First(k) == (k \div 3) + 1
Second(k) == (k % 3) + 1

\* SimpleDicomFileDistance.__init__ with a list of field names
InitExact ==
  /\ cls = Simple
  /\ dcmf1 = None
  /\ dcmf2 = None
  /\ field_weights \in {DictFromList(h, <<>>) : h \in HeaderFieldLists}
  /\ ret = NoReturn
  /\ trio \in [1..3 -> Records]
  /\ relation = <<>>
  /\ IdleGroup
  /\ IdleStore
  /\ IdleMatrix
  /\ IdleThreshold
  /\ IdleFolder
  /\ IdleUnique
  /\ IdleCopy
  /\ IdleTools

ComparePair ==
  /\ Len(relation) < 9
  /\ fit_transform(trio[First(Len(relation))], trio[Second(Len(relation))])
  /\ relation' = Append(relation, ret')
  /\ UNCHANGED <<trio, groupVars, storeVars, matrixVars, thresholdVars, folderVars, uniqueVars, copyVars, toolVars>>

NextExact == ComparePair

SpecExact == InitExact /\ [][NextExact]_vars

(***************************************************************************)
(* numpy.float16, the element type of the distance matrix: a value is      *)
(* rounded to the nearest number with an 11-bit significand, ties to the   *)
(* even significand; below 2^-14 the spacing stays 2^-24.                  *)
(***************************************************************************)
RECURSIVE GCD(_, _)
GCD(a, b) == IF b = 0 THEN a ELSE GCD(b, a % b)

Reduce(x) == IF x[1] = 0 THEN <<0, 1>> ELSE <<x[1] \div GCD(x[1], x[2]), x[2] \div GCD(x[1], x[2])>>

\* the float16 nearest to the fraction x, 0 <= x < 2
Float16(x) ==
  LET RECURSIVE Pow2(_)
      Pow2(e) == IF e = 0 THEN 1 ELSE 2 * Pow2(e - 1)
      \* the least s >= 0 with x * 2^s >= 1, capped where the subnormals begin
      RECURSIVE Scale(_)
      Scale(s) == IF x[1] * Pow2(s) >= x[2] \/ s = 14 THEN s ELSE Scale(s + 1)
      ulp == Pow2(Scale(0) + 10)
      \* round(x * ulp), ties to even
      q == (x[1] * ulp) \div x[2]
      r == (x[1] * ulp) % x[2]
      rounded == IF 2 * r < x[2] THEN q
                 ELSE IF 2 * r > x[2] THEN q + 1
                 ELSE IF q % 2 = 0 THEN q ELSE q + 1
  IN IF x[1] = 0 THEN <<0, 1>> ELSE Reduce(<<rounded, ulp>>)

\* file_dists[idxi, idxj] = value: the conversion of a result of transform
AsFloat16(value) ==
  IF value.kind = "inf" THEN Inf
  ELSE IF value.kind = "bool" THEN (IF value.b THEN Num(1, 1) ELSE Num(0, 1))
  ELSE LET f == Float16(<<value.num, value.den>>) IN Num(f[1], f[2])

(***************************************************************************)
(* calculate_file_distances and DicomFilesClustering.levenshtein_analysis. *)
(***************************************************************************)
RecE == [PatientID |-> StrV(<<"1", "2">>), Name |-> StrV(<<"J", "o", "n">>)]
MatrixRecords == {RecA, RecC, RecD, RecE}

\* the weight tables handed to the calls
MatrixTables ==
  {<<>>, <<Item("Name", 1)>>, <<Item("PatientID", 1), Item("Name", 2)>>}

\* header_fields of the facade: a dict of weights, or a list of names (kept
\* as the items of {name: 1})
HeaderFieldsArgs ==
  {[isdict |-> TRUE, items |-> <<Item("PatientID", 1), Item("Name", 2)>>],
   [isdict |-> FALSE, items |-> <<Item("PatientID", 1), Item("Name", 1)>>]}

\* the field_weights argument of a call: None or a dict
Absent == [none |-> TRUE, value |-> <<>>]
Given(v) == [none |-> FALSE, value |-> v]

\* np.zeros((n_files, n_files), dtype=np.float16)
Zeros(n) == [c \in (1..n) \X (1..n) |-> Num(0, 1)]

\* transform of a distance object whose field_weights may be None: len(None)
\* and iterating None raise TypeError
TransformOf(c, d1, d2, fw, fw_is_none) ==
  IF d1 = None \/ d2 = None THEN Inf
  ELSE IF fw_is_none THEN Raise("TypeError")
  ELSE IF c = Simple THEN SimpleTransform(d1, d2, fw)
  ELSE LevenshteinTransform(d1, d2, fw)

Raises(r) == r.kind \notin {"none", "inf", "bool", "num"}

\* the representatives of the groups of the facade
KeyDicoms == [i \in 1..Len(dicom_groups) |-> dicom_groups[i].key]

\* the records of different groups differ on a header field
HeaderDistinct(f, items) ==
  \A a, b \in DOMAIN f :
    a # b => \E i \in 1..Len(items) :
               StrGetattrDefault(f[a], items[i].name) # StrGetattrDefault(f[b], items[i].name)

\* DicomFilesClustering.__init__: one group for each class of records
InitMatrix ==
  /\ self_field_weights \in HeaderFieldsArgs
  /\ self_dist_method_cls \in {Simple, Levenshtein}
  /\ \E n \in 0..MaxFiles :
       /\ files \in {f \in [1..n -> MatrixRecords] : HeaderDistinct(f, self_field_weights.items)}
       /\ dicom_groups = [i \in 1..n |-> Group(i, <<i>>)]
  /\ dicom_file_paths = <<>>
  /\ path_list = <<>>
  /\ file_path1 = 0
  /\ file_subgroup = <<>>
  /\ j = 0
  /\ path_groups = <<>>
  /\ pc = "idle"
  /\ old_groups = <<>>
  /\ indices = <<>>
  /\ merge_ret = NoCall
  /\ IdleDist
  /\ weights_none = FALSE
  /\ dicom_files = <<>>
  /\ file_dists = <<>>
  /\ idxi = 0
  /\ idxj = 0
  /\ dist_pc = "idle"
  /\ call = [entry |-> "none", field_weights |-> Absent]
  /\ call_ret = NoReturn
  /\ IdleExact
  /\ IdleThreshold
  /\ IdleFolder
  /\ IdleUnique
  /\ IdleCopy
  /\ IdleTools

\* lines 329-346: the distance object and the matrix of zeros
StartDistances(files_arg, fw_arg, cls_arg) ==
  /\ cls' = IF cls_arg = "None" THEN Levenshtein ELSE cls_arg
  /\ field_weights' = IF fw_arg.none THEN <<>> ELSE fw_arg.value
  /\ weights_none' = fw_arg.none
  /\ dcmf1' = None
  /\ dcmf2' = None
  /\ ret' = NoReturn
  /\ dicom_files' = files_arg
  /\ file_dists' = Zeros(Len(files_arg))
  /\ idxi' = 0
  /\ idxj' = 0
  /\ dist_pc' = "for_i"
  /\ call_ret' = NoReturn

matrixRest ==
  <<dicom_file_paths, path_list, file_path1, file_subgroup, j, path_groups, pc,
    old_groups, indices, merge_ret, exactVars, thresholdVars, folderVars, uniqueVars, copyVars, toolVars>>

\* a direct call of calculate_file_distances on the representatives
CalculateFileDistances ==
  /\ dist_pc = "idle"
  /\ \E fw \in {Absent} \cup {Given(t) : t \in MatrixTables},
        c \in {"None", Simple, Levenshtein} :
       /\ StartDistances(KeyDicoms, fw, c)
       /\ call' = [entry |-> "calculate_file_distances", field_weights |-> fw]
  /\ UNCHANGED <<files, dicom_groups, self_field_weights, self_dist_method_cls, matrixRest>>

\* DicomFilesClustering.levenshtein_analysis, lines 428-434
LevenshteinAnalysis ==
  /\ dist_pc = "idle"
  /\ \E fw \in {Absent} \cup {Given(t) : t \in MatrixTables} :
       /\ call' = [entry |-> "levenshtein_analysis", field_weights |-> fw]
       /\ IF fw.none /\ ~self_field_weights.isdict
          THEN /\ call_ret' = Raise("ValueError")
               /\ dist_pc' = "raised"
               /\ UNCHANGED <<distVars, weights_none, dicom_files, file_dists, idxi, idxj>>
          ELSE StartDistances(KeyDicoms, fw, self_dist_method_cls)
  /\ UNCHANGED <<files, dicom_groups, self_field_weights, self_dist_method_cls, matrixRest>>

\* lines 348-349: the next row
SetRowFile ==
  /\ dist_pc = "for_i"
  /\ idxi < Len(dicom_files)
  /\ set_dicom_file1(files[dicom_files[idxi + 1]])
  /\ idxj' = idxi + 1
  /\ dist_pc' = "for_j"
  /\ UNCHANGED <<weights_none, dicom_files, file_dists, idxi, call, call_ret>>
  /\ UNCHANGED <<files, dicom_groups, self_field_weights, self_dist_method_cls, matrixRest>>

\* lines 350-355: one comparison; an exception of transform ends the call
CompareFiles ==
  /\ dist_pc = "for_j"
  /\ idxj < Len(dicom_files)
  /\ LET file2 == <<files[dicom_files[idxj + 1]]>>
         value == TransformOf(cls, dcmf1, file2, field_weights, weights_none)
     IN /\ dcmf2' = file2
        /\ ret' = value
        /\ IF Raises(value)
           THEN /\ dist_pc' = "raised"
                /\ call_ret' = value
                /\ UNCHANGED <<file_dists, idxj>>
           ELSE /\ file_dists' = [file_dists EXCEPT ![<<idxi + 1, idxj + 1>>] = AsFloat16(value)]
                /\ idxj' = idxj + 1
                /\ UNCHANGED <<dist_pc, call_ret>>
  /\ UNCHANGED <<cls, dcmf1, field_weights, weights_none, dicom_files, idxi, call>>
  /\ UNCHANGED <<files, dicom_groups, self_field_weights, self_dist_method_cls, matrixRest>>

\* the row is over
NextRow ==
  /\ dist_pc = "for_j"
  /\ idxj >= Len(dicom_files)
  /\ idxi' = idxi + 1
  /\ dist_pc' = "for_i"
  /\ UNCHANGED <<distVars, weights_none, dicom_files, file_dists, idxj, call, call_ret>>
  /\ UNCHANGED <<files, dicom_groups, self_field_weights, self_dist_method_cls, matrixRest>>

\* line 357
ReturnDistances ==
  /\ dist_pc = "for_i"
  /\ idxi >= Len(dicom_files)
  /\ dist_pc' = "returned"
  /\ call_ret' = Ret("returned", FALSE, 0, 1)
  /\ UNCHANGED <<distVars, weights_none, dicom_files, file_dists, idxi, idxj, call>>
  /\ UNCHANGED <<files, dicom_groups, self_field_weights, self_dist_method_cls, matrixRest>>

NextMatrix ==
  \/ CalculateFileDistances
  \/ LevenshteinAnalysis
  \/ SetRowFile
  \/ CompareFiles
  \/ NextRow
  \/ ReturnDistances

SpecMatrix == InitMatrix /\ [][NextMatrix]_vars

(***************************************************************************)
(* DicomFilesClustering.dist_percentile_threshold.  The entries of a       *)
(* distance matrix are counted in units of 1/MaxDist; numpy.percentile is  *)
(* the linear interpolation between the two order statistics next to the   *)
(* position (m - 1) * p / 100 of the m sorted values.                      *)
(***************************************************************************)
DistValues == 0..MaxDist
Percents == {0, 25, 50, 75, 100}

\* np.triu_indices(n, k): the entries on and above the k-th diagonal
TriuIndices(n, k) == {c \in (1..n) \X (1..n) : c[2] - c[1] >= k}

\* the i-th smallest (i = 0, 1, ...) of the values of m at the indices idx
OrderStatistic(m, idx, i) ==
  CHOOSE v \in DistValues :
    /\ Cardinality({c \in idx : m[c] <= v}) > i
    /\ Cardinality({c \in idx : m[c] < v}) <= i

\* np.percentile(m[idx], q) as the fraction <<numerator, 100>>
Percentile(m, idx, q) ==
  LET position == (Cardinality(idx) - 1) * q
      lower == OrderStatistic(m, idx, position \div 100)
      upper_ == IF position % 100 = 0 THEN lower
                ELSE OrderStatistic(m, idx, (position \div 100) + 1)
  IN <<100 * lower + (position % 100) * (upper_ - lower), 100>>

\* a plausible slip: the comparison is not strict
BelowOrEqual(x, perc) == x * perc[2] <= perc[1]

\* a plausible slip: the comparison selects the outliers
Above(x, perc) == x * perc[2] > perc[1]

\* dist_matrix[triu_idx] < np.percentile(...)
Below(x, perc) == x * perc[2] < perc[1]

\* lines 459-462
dist_percentile_threshold(m, q, k) ==
  LET n == CHOOSE n \in 0..(MaxFiles + 1) : DOMAIN m = (1..n) \X (1..n)
      triu_idx == TriuIndices(n, k)
      perc == Percentile(m, triu_idx, q)
  IN [c \in DOMAIN m |-> IF c \in triu_idx /\ Below(m[c], perc) THEN 1 ELSE 0]

\* the matrices of calculate_file_distances: zeros on and below the diagonal
DistMatrices(n) ==
  {[c \in (1..n) \X (1..n) |-> IF c[1] < c[2] THEN above[c] ELSE 0] :
     above \in [{c \in (1..n) \X (1..n) : c[1] < c[2]} -> DistValues]}

InitThreshold ==
  /\ \E n \in 1..MaxFiles :
       /\ dist_matrix \in DistMatrices(n)
       /\ triu_k \in (-1)..(n - 1)
  /\ perc_thr = -1
  /\ upper = <<>>
  /\ prev_perc_thr = -1
  /\ prev_upper = <<>>
  /\ IdleDist
  /\ IdleGroup
  /\ IdleStore
  /\ IdleExact
  /\ IdleMatrix
  /\ IdleFolder
  /\ IdleUnique
  /\ IdleCopy
  /\ IdleTools

\* a call with the next percentile; the caller keeps the previous answer
DistPercentileThreshold ==
  /\ \E q \in Percents :
       /\ perc_thr' = q
       /\ upper' = dist_percentile_threshold(dist_matrix, q, triu_k)
  /\ prev_perc_thr' = perc_thr
  /\ prev_upper' = upper
  /\ UNCHANGED <<dist_matrix, triu_k, distVars, groupVars, storeVars, exactVars, matrixVars, folderVars, uniqueVars, copyVars, toolVars>>

NextThreshold == DistPercentileThreshold

SpecThreshold == InitThreshold /\ [][NextThreshold]_vars

(***************************************************************************)
(* DicomFilesClustering.get_groups_in_same_folder.  A file path is the     *)
(* sequence of its characters.                                             *)
(***************************************************************************)
Sep == "/"

FolderPaths ==
  {<<"/", "d", "/", "s", "1", "/", "a">>,
   <<"/", "d", "/", "s", "1", "/", "b">>,
   <<"/", "d", "/", "s", "1", "0", "/", "a">>,
   <<"/", "d", "/", "s", "2", "/", "a">>,
   <<"/", "e", "/", "s", "1", "/", "a">>}

FolderDepths == 1..3

\* get_folder_subpath(path, folder_depth): the path cut before the separator
\* that ends its folder_depth-th component (a leading separator ends none);
\* the whole path if it is shorter
get_folder_subpath(path, depth) ==
  LET seps == {i \in 2..Len(path) : path[i] = Sep}
      cuts == {i \in seps : Cardinality({k \in seps : k < i}) = depth - 1}
  IN IF cuts = {} THEN path
     ELSE SubSeq(path, 1, (CHOOSE i \in cuts : TRUE) - 1)

\* group.startswith(dir_group1)
StartsWith(group, dir_group1) ==
  /\ Len(dir_group1) <= Len(group)
  /\ SubSeq(group, 1, Len(dir_group1)) = dir_group1

\* lines 481-487: the last key is popped and compared with the keys left
RECURSIVE GroupPairsLoop(_, _, _)
GroupPairsLoop(key_dicoms, depth, pairs) ==
  IF key_dicoms = <<>> THEN pairs
  ELSE LET group1 == key_dicoms[Len(key_dicoms)]
           rest == SubSeq(key_dicoms, 1, Len(key_dicoms) - 1)
           dir_group1 == get_folder_subpath(group1, depth)
           found == SelectSeq(rest, LAMBDA group : StartsWith(group, dir_group1))
       IN GroupPairsLoop(rest, depth,
                         pairs \o [i \in 1..Len(found) |-> <<group1, found[i]>>])

get_groups_in_same_folder(groups, depth) ==
  GroupPairsLoop([i \in 1..Len(groups) |-> groups[i].key], depth, <<>>)

\* lists of different elements of S, up to n long
DistinctSeqs(S, n) == {s \in SeqsUpTo(S, n) : \A a, b \in 1..Len(s) : a # b => s[a] # s[b]}

\* a facade whose groups are keyed by the paths of their representatives
InitFolder ==
  /\ \E keys \in DistinctSeqs(FolderPaths, MaxFiles) :
       dicom_groups = [i \in 1..Len(keys) |-> Group(keys[i], <<keys[i]>>)]
  /\ old_groups = <<>>
  /\ indices = <<>>
  /\ merge_ret = NoCall
  /\ folder_depth = 0
  /\ group_pairs = <<>>
  /\ IdleDist
  /\ IdleGroup
  /\ IdleExact
  /\ IdleMatrix
  /\ IdleThreshold
  /\ IdleUnique
  /\ IdleCopy
  /\ IdleTools

GetGroupsInSameFolder ==
  /\ \E d \in FolderDepths :
       /\ folder_depth' = d
       /\ group_pairs' = get_groups_in_same_folder(dicom_groups, d)
  /\ UNCHANGED <<distVars, groupVars, storeVars, exactVars, matrixVars, thresholdVars,
                 uniqueVars, copyVars, toolVars>>

NextFolder == GetGroupsInSameFolder

SpecFolder == InitFolder /\ [][NextFolder]_vars

(***************************************************************************)
(* DicomFilesClustering.get_unique_field_values_per_group.  The result is  *)
(* an ordered dict of sets, kept as the sequence of its entries; a key is  *)
(* the path of a representative or the string of a field value.            *)
(***************************************************************************)
PathV(path) == [t |-> "path", s |-> <<>>, n |-> path]

\* DicomFile.get_attributes(attribute, default='') with one attribute name
get_attributes(dcm, attribute) ==
  IF HasAttr(dcm, attribute) THEN dcm[attribute] ELSE StrV(<<>>)

\* unique_vals[key_val].add(field_val) on a DefaultOrderedDict(set)
AddValue(unique, key_val, field_val) ==
  IF \E i \in 1..Len(unique) : unique[i].key = key_val
  THEN [i \in 1..Len(unique) |->
          IF unique[i].key = key_val
          THEN [key |-> key_val, vals |-> unique[i].vals \cup {field_val}]
          ELSE unique[i]]
  ELSE Append(unique, [key |-> key_val, vals |-> {field_val}])

\* lines 581-589 for the member f of the group dcmg; get_attributes raises
\* no KeyError, so the handler of lines 587-590 is never entered
RECURSIVE UniqueLoop(_, _, _, _, _, _, _)
UniqueLoop(groups, recs, field_name, key_field, g, f, unique) ==
  IF g > Len(groups) THEN unique
  ELSE IF f > Len(groups[g].items)
  THEN UniqueLoop(groups, recs, field_name, key_field, g + 1, 1, unique)
  ELSE LET dcmg == groups[g].key
           field_val == get_attributes(recs[groups[g].items[f]], field_name)
           key_val == IF key_field = "None" THEN PathV(dcmg)
                      ELSE StrV(Str(get_attributes(recs[dcmg], key_field)))
       IN UniqueLoop(groups, recs, field_name, key_field, g, f + 1,
                     AddValue(unique, key_val, field_val))

get_unique_field_values_per_group(groups, recs, field_name, key_field) ==
  UniqueLoop(groups, recs, field_name, key_field, 1, 1, <<>>)

\* the groups are the classes of the files under the header PatientID
GroupedByPatientID(groups, recs) ==
  \A a, b \in 1..Len(groups) :
    \A m \in 1..Len(groups[b].items) :
      (a = b) <=> (StrGetattrDefault(recs[groups[a].key], "PatientID")
                     = StrGetattrDefault(recs[groups[b].items[m]], "PatientID"))

InitUnique ==
  /\ files \in [Paths -> GroupRecords]
  /\ dicom_groups \in {g \in InitialStores : GroupedByPatientID(g, files)}
  /\ dicom_file_paths = <<>>
  /\ path_list = <<>>
  /\ file_path1 = 0
  /\ file_subgroup = <<>>
  /\ j = 0
  /\ path_groups = <<>>
  /\ pc = "idle"
  /\ old_groups = <<>>
  /\ indices = <<>>
  /\ merge_ret = NoCall
  /\ unique_args = <<>>
  /\ unique_vals = <<>>
  /\ unique_ret = NoCall
  /\ IdleDist
  /\ IdleExact
  /\ IdleMatrix
  /\ IdleThreshold
  /\ IdleFolder
  /\ IdleCopy
  /\ IdleTools

GetUniqueFieldValuesPerGroup ==
  /\ \E field_name \in Fields, key_field \in Fields \cup {"None"} :
       /\ unique_args' = <<field_name, key_field>>
       /\ unique_vals' = get_unique_field_values_per_group(dicom_groups, files,
                                                           field_name, key_field)
       /\ unique_ret' = Ok
  /\ UNCHANGED <<distVars, groupVars, storeVars, exactVars, matrixVars, thresholdVars,
                 folderVars, copyVars, toolVars>>

NextUnique == GetUniqueFieldValuesPerGroup

SpecUnique == InitUnique /\ [][NextUnique]_vars

(***************************************************************************)
(* copy_groups_to_folder and DicomFilesClustering.move_to_folder.  A path  *)
(* is the sequence of its components, a component the sequence of its      *)
(* characters; the paths of the destination are relative to folder_path.   *)
(***************************************************************************)
CopyPaths ==
  {<<<<"x">>, <<"a">>>>, <<<<"y">>, <<"a">>>>, <<<<"z">>, <<"a">>>>, <<<<"x">>, <<"b">>>>}

\* the header record of a source file, one for each source folder
CopyRecord(path) ==
  IF path[1] = <<"x">> THEN RecB
  ELSE IF path[1] = <<"y">> THEN RecC
  ELSE RecA

\* groupby_field_name: None, or the names its iteration yields: the names of
\* a list, the characters of a string
GroupByArgs ==
  {[none |-> TRUE, atts |-> <<>>],
   [none |-> FALSE, atts |-> <<>>],
   [none |-> FALSE, atts |-> <<"N", "a", "m", "e">>],
   [none |-> FALSE, atts |-> <<"PatientID">>],
   [none |-> FALSE, atts |-> <<"PatientID", "Name">>]}

\* what folder_path holds before the call: nothing (it does not exist), an
\* empty folder, or a folder with an entry named 12
InitialFolders == {{}, {<<>>}, {<<>>, <<<<"1", "2">>>>}}

\* os.path.basename(path)
BaseName(path) == path[Len(path)]

\* lines 274-281: the name of the folder of the group; os.path.join accepts
\* strings only, and joining '' adds no component
RECURSIVE JoinAttributes(_, _, _, _)
JoinAttributes(dfile, atts, i, dir_name) ==
  IF i > Len(atts) THEN [raised |-> "", dir |-> dir_name]
  ELSE LET value == get_attributes(dfile, atts[i])
       IN IF value.t # "str" THEN [raised |-> "TypeError", dir |-> <<>>]
          ELSE JoinAttributes(dfile, atts, i + 1,
                 IF value.s = <<>> THEN dir_name ELSE Append(dir_name, value.s))

DirName(dfile, dcmg, groupby) ==
  IF ~groupby.none /\ Len(groupby.atts) > 0
  THEN JoinAttributes(dfile, groupby.atts, 1, <<>>)
  ELSE [raised |-> "", dir |-> <<BaseName(dcmg)>>]

\* destf += '+'
WithMarker(destf) == [destf EXCEPT ![Len(destf)] = @ \o <<"+">>]

\* a plausible slip: `if` in place of `while`
FreeDestinationOnce(existing, destf) ==
  IF destf \in existing THEN WithMarker(destf) ELSE destf

\* lines 294-295: while os.path.exists(destf): destf += '+'
RECURSIVE FreeDestination(_, _)
FreeDestination(existing, destf) ==
  IF destf \in existing THEN FreeDestination(existing, WithMarker(destf)) ELSE destf

\* the ways to cut a list of paths into groups keyed by their first member
RECURSIVE SplitInto(_)
SplitInto(s) ==
  IF s = <<>> THEN {<<>>}
  ELSE UNION {{<<Group(s[1], SubSeq(s, 1, size))>> \o rest :
                 rest \in SplitInto(SubSeq(s, size + 1, Len(s)))} :
              size \in 1..Len(s)}

CopyStores == UNION {SplitInto(s) : s \in DistinctSeqs(CopyPaths, MaxFiles)}

InitCopy ==
  /\ files = [path \in CopyPaths |-> CopyRecord(path)]
  /\ dicom_groups \in CopyStores
  /\ fs \in InitialFolders
  /\ dicom_file_paths = <<>>
  /\ path_list = <<>>
  /\ file_path1 = 0
  /\ file_subgroup = <<>>
  /\ j = 0
  /\ path_groups = <<>>
  /\ pc = "idle"
  /\ old_groups = <<>>
  /\ indices = <<>>
  /\ merge_ret = NoCall
  /\ groupby_field_name = <<>>
  /\ group_folder = <<>>
  /\ copy_g = 0
  /\ copy_f = 0
  /\ copied = <<>>
  /\ copy_pc = "idle"
  /\ move_ret = NoCall
  /\ IdleDist
  /\ IdleExact
  /\ IdleMatrix
  /\ IdleThreshold
  /\ IdleFolder
  /\ IdleUnique
  /\ IdleTools

copyRest ==
  <<distVars, groupVars, storeVars, exactVars, matrixVars, thresholdVars, folderVars,
    uniqueVars, toolVars>>

\* move_to_folder, and lines 270-273 of copy_groups_to_folder
MoveToFolder ==
  /\ copy_pc = "idle"
  /\ \E groupby \in GroupByArgs : groupby_field_name' = groupby
  /\ IF Len(dicom_groups) = 0
     THEN /\ move_ret' = Exc("ValueError", "Expected a boyle.dicom.sets.DicomFileSet.", {})
          /\ copy_pc' = "raised"
          /\ UNCHANGED <<fs, copy_g>>
     ELSE /\ fs' = fs \cup {<<>>}
          /\ copy_g' = 1
          /\ copy_pc' = "groups"
          /\ UNCHANGED move_ret
  /\ UNCHANGED <<group_folder, copy_f, copied, copyRest>>

\* lines 274-285: the folder of the next group; the IOError of makedirs is
\* wrapped by move_to_folder, a TypeError of os.path.join is not
MakeGroupFolder ==
  /\ copy_pc = "groups"
  /\ copy_g <= Len(dicom_groups)
  /\ LET dcmg == dicom_groups[copy_g].key
         named == DirName(files[dcmg], dcmg, groupby_field_name)
     IN IF named.raised # ""
        THEN /\ move_ret' = Exc(named.raised, "", {})
             /\ copy_pc' = "raised"
             /\ UNCHANGED <<fs, group_folder, copy_f>>
        ELSE IF named.dir \in fs
        THEN /\ move_ret' = Exc("IOError", "Error moving dicom groups to {}.", {})
             /\ copy_pc' = "raised"
             /\ UNCHANGED <<fs, group_folder, copy_f>>
        ELSE /\ fs' = fs \cup {SubSeq(named.dir, 1, n) : n \in 1..Len(named.dir)}
             /\ group_folder' = named.dir
             /\ copy_f' = 1
             /\ copy_pc' = "members"
             /\ UNCHANGED move_ret
  /\ UNCHANGED <<groupby_field_name, copy_g, copied, copyRest>>

\* lines 292-296: one member is copied
CopyMember ==
  /\ copy_pc = "members"
  /\ copy_f <= Len(dicom_groups[copy_g].items)
  /\ LET srcf == dicom_groups[copy_g].items[copy_f]
         destf == FreeDestination(fs, Append(group_folder, BaseName(srcf)))
     IN /\ copied' = Append(copied, [src |-> srcf, dest |-> destf, existed |-> destf \in fs])
        /\ fs' = fs \cup {destf}
  /\ copy_f' = copy_f + 1
  /\ UNCHANGED <<groupby_field_name, group_folder, copy_g, copy_pc, move_ret, copyRest>>

\* the members of the group are done
NextCopyGroup ==
  /\ copy_pc = "members"
  /\ copy_f > Len(dicom_groups[copy_g].items)
  /\ copy_g' = copy_g + 1
  /\ copy_pc' = "groups"
  /\ UNCHANGED <<fs, groupby_field_name, group_folder, copy_f, copied, move_ret, copyRest>>

ReturnMove ==
  /\ copy_pc = "groups"
  /\ copy_g > Len(dicom_groups)
  /\ copy_pc' = "returned"
  /\ move_ret' = Ok
  /\ UNCHANGED <<fs, groupby_field_name, group_folder, copy_g, copy_f, copied, copyRest>>

NextCopy == MoveToFolder \/ MakeGroupFolder \/ CopyMember \/ NextCopyGroup \/ ReturnMove

SpecCopy == InitCopy /\ [][NextCopy]_vars

(***************************************************************************)
(* petitdb: a table of items with unique-field operations.  An item, a     *)
(* sample and a dict of fields map some of the keys to values; the table   *)
(* is the sequence of its items, the item of eid n at index n (the table   *)
(* is only ever inserted into and updated, so the eids are 1..len).        *)
(***************************************************************************)
NoneV == [t |-> "none", s |-> <<>>, n |-> 0]

EmptyDict == <<>>

\* the dicts handed over as data or sample
DbDicts ==
  {EmptyDict}
    \cup {("x" :> IntV(a)) : a \in 0..1}
    \cup {("x" :> IntV(a)) @@ ("y" :> IntV(1)) : a \in 0..1}

\* the dicts handed over as fields of an update
DbFields == {("z" :> NoneV), ("y" :> IntV(0))}

\* unique_fields: None, one name as a str, or a list of names
NoFields == [none |-> TRUE, names |-> {}]
FieldList(names) == [none |-> FALSE, names |-> names]
UniqueFieldsArgs ==
  {NoFields, FieldList({"x"}), FieldList({"x", "y"}), FieldList({})}

\* the tables of at most n items
RECURSIVE TablesUpTo(_)
TablesUpTo(n) ==
  IF n = 0 THEN {<<>>}
  ELSE LET shorter == TablesUpTo(n - 1)
       IN shorter \cup {Append(t, d) : t \in {u \in shorter : Len(u) = n - 1},
                                       d \in DbDicts}

DbReturn(eid) == [kind |-> "return", eid |-> eid, type |-> ""]
DbRaise(type) == [kind |-> "raise", eid |-> 0, type |-> type]
\* the eid a call returns for None
NoEid == 0

\* str(v)
PyStr(v) == IF v.t = "none" THEN <<"N", "o", "n", "e">> ELSE Str(v)

\* _to_string: every value that is not a string or a number becomes its str
to_string(data) ==
  [k \in DOMAIN data |-> IF data[k].t \in {"str", "int"} THEN data[k]
                         ELSE StrV(PyStr(data[k]))]

\* _build_query: where(field_name) == field_value
build_query(field_name, field_value) == [field |-> field_name, value |-> field_value]

\* the test of a query on an item: the item has the field with that value
Test(query, item) == query.field \in DOMAIN item /\ item[query.field] = query.value

\* _concat_queries with '__and__': the conjunction, an error for no query
concat_queries(queries) ==
  IF queries = {} THEN [raised |-> "ValueError", queries |-> {}]
  ELSE [raised |-> "", queries |-> queries]

\* _query_sample: one equality query for each key of the sample
query_sample(sample) ==
  concat_queries({build_query(fn, sample[fn]) : fn \in DOMAIN sample})

\* _query_data: the sample is data restricted to field_names
query_data(data, field_names) ==
  LET names == IF field_names.none THEN DOMAIN data ELSE field_names.names
  IN IF \E fn \in names : fn \notin DOMAIN data
     THEN [raised |-> "KeyError", queries |-> {}]
     ELSE query_sample([fn \in names |-> data[fn]])

\* table.search(query): the eids of the items that pass every test
Search(table, queries) ==
  {eid \in 1..Len(table) : \A q \in queries : Test(q, table[eid])}

\* a plausible slip: the first item found is returned whatever their number
search_unique_first(table, sample, unique_fields) ==
  LET query == query_data(sample, unique_fields)
      items == Search(table, query.queries)
  IN IF query.raised # "" THEN DbRaise(query.raised)
     ELSE IF items # {} THEN DbReturn(CHOOSE eid \in items : \A e \in items : eid <= e)
     ELSE DbReturn(NoEid)

\* search_unique, and find_unique which returns the eid of the item found
search_unique(table, sample, unique_fields) ==
  LET query == query_data(sample, unique_fields)
      items == Search(table, query.queries)
  IN IF query.raised # "" THEN DbRaise(query.raised)
     ELSE IF Cardinality(items) = 1 THEN DbReturn(CHOOSE eid \in items : TRUE)
     ELSE IF Cardinality(items) = 0 THEN DbReturn(NoEid)
     ELSE DbRaise("MoreThanOneItemError")

find_unique(table, sample, unique_fields) == search_unique(table, sample, unique_fields)

\* a plausible slip: the item found is not returned and the data is inserted
insert_unique_always(table, data, unique_fields, raise_if_found) ==
  LET item == find_unique(table, data, unique_fields)
  IN IF item.kind = "raise" THEN [table |-> table, ret |-> item]
     ELSE IF item.eid # NoEid /\ raise_if_found
     THEN [table |-> table, ret |-> DbRaise("NotUniqueItemError")]
     ELSE [table |-> Append(table, data), ret |-> DbReturn(Len(table) + 1)]

\* insert_unique: what the table becomes and how the call ends
insert_unique(table, data, unique_fields, raise_if_found) ==
  LET item == find_unique(table, data, unique_fields)
  IN IF item.kind = "raise" THEN [table |-> table, ret |-> item]
     ELSE IF item.eid # NoEid
     THEN IF raise_if_found
          THEN [table |-> table, ret |-> DbRaise("NotUniqueItemError")]
          ELSE [table |-> table, ret |-> item]
     ELSE [table |-> Append(table, data), ret |-> DbReturn(Len(table) + 1)]

\* dict.update(fields)
DictUpdate(item, fields) ==
  [k \in DOMAIN item \cup DOMAIN fields |-> IF k \in DOMAIN fields THEN fields[k] ELSE item[k]]

\* a plausible slip: every item is updated (the eids are not handed over)
update_unique_all(table, fields, data, unique_fields, raise_if_not_found) ==
  LET eid == find_unique(table, data, unique_fields)
  IN IF eid.kind = "raise" THEN [table |-> table, ret |-> eid]
     ELSE IF eid.eid = NoEid
     THEN [table |-> table,
           ret |-> IF raise_if_not_found THEN DbRaise("IndexError") ELSE eid]
     ELSE [table |-> [e \in 1..Len(table) |-> DictUpdate(table[e], to_string(fields))],
           ret |-> eid]

\* PetitDB.update_unique with cond=None
update_unique(table, fields, data, unique_fields, raise_if_not_found) ==
  LET eid == find_unique(table, data, unique_fields)
  IN IF eid.kind = "raise" THEN [table |-> table, ret |-> eid]
     ELSE IF eid.eid = NoEid
     THEN [table |-> table,
           ret |-> IF raise_if_not_found THEN DbRaise("IndexError") ELSE eid]
     ELSE [table |-> [table EXCEPT ![eid.eid] = DictUpdate(@, to_string(fields))],
           ret |-> eid]

DbCall(op, data, fields, unique_fields, flag) ==
  [op |-> op, data |-> data, fields |-> fields, unique_fields |-> unique_fields,
   flag |-> flag]

IdleClustering ==
  /\ IdleDist
  /\ IdleGroup
  /\ IdleStore
  /\ IdleExact
  /\ IdleMatrix
  /\ IdleThreshold
  /\ IdleFolder
  /\ IdleUnique
  /\ IdleCopy

clusteringVars ==
  <<distVars, groupVars, storeVars, exactVars, matrixVars, thresholdVars, folderVars,
    uniqueVars, copyVars>>

\* the table as the caller filled it with insert and insert_multiple
InitTable ==
  /\ db_table \in TablesUpTo(MaxItems)
  /\ old_table = db_table
  /\ db_call = <<>>
  /\ db_ret = <<>>
  /\ IdleClustering
  /\ IdleImage
  /\ IdleConfig

tableRest == <<clusteringVars, imageVars, rcVars>>

InsertUnique ==
  /\ db_call = <<>>
  /\ \E data \in DbDicts, unique_fields \in UniqueFieldsArgs, raise_if_found \in BOOLEAN :
       LET done == insert_unique(db_table, data, unique_fields, raise_if_found)
       IN /\ Len(done.table) <= MaxItems
          /\ db_call' = DbCall("insert_unique", data, EmptyDict, unique_fields, raise_if_found)
          /\ db_table' = done.table
          /\ db_ret' = done.ret
  /\ old_table' = db_table
  /\ UNCHANGED tableRest

FindUnique ==
  /\ db_call = <<>>
  /\ \E sample \in DbDicts, unique_fields \in UniqueFieldsArgs :
       /\ db_call' = DbCall("find_unique", sample, EmptyDict, unique_fields, FALSE)
       /\ db_ret' = find_unique(db_table, sample, unique_fields)
  /\ old_table' = db_table
  /\ UNCHANGED <<db_table, tableRest>>

UpdateUnique ==
  /\ db_call = <<>>
  /\ \E fields \in DbFields, data \in DbDicts, unique_fields \in UniqueFieldsArgs,
        raise_if_not_found \in BOOLEAN :
       LET done == update_unique(db_table, fields, data, unique_fields, raise_if_not_found)
       IN /\ db_call' = DbCall("update_unique", data, fields, unique_fields,
                               raise_if_not_found)
          /\ db_table' = done.table
          /\ db_ret' = done.ret
  /\ old_table' = db_table
  /\ UNCHANGED tableRest

\* the caller has taken the result and is free to call again
TakeResult ==
  /\ db_call # <<>>
  /\ db_call' = <<>>
  /\ db_ret' = <<>>
  /\ old_table' = db_table
  /\ UNCHANGED <<db_table, tableRest>>

NextTable == InsertUnique \/ FindUnique \/ UpdateUnique \/ TakeResult

SpecTable == InitTable /\ [][NextTable]_vars

(***************************************************************************)
(* NeuroImage: the cached data and the mask.  An array is described by     *)
(* what it holds: the whole data of the image, or the data masked by one   *)
(* mask image.  What masking does with an array belongs to numpy and       *)
(* nibabel, so each of its outcomes is taken: the masked data, a           *)
(* ValueError, or another exception.                                       *)
(***************************************************************************)
MaskImages == 1..NumMasks

NoData == [kind |-> "None", by |-> 0]
Whole == [kind |-> "whole", by |-> 0]
Masked(m) == [kind |-> "masked", by |-> m]

has_data_loaded(data) == data # NoData
has_mask(mask) == mask # 0

\* _mask_data: an image of 3 or 4 dimensions is masked by numpy, any other
\* number of dimensions is a ValueError
MaskOutcomes(ndim) ==
  IF ndim \in {3, 4} THEN {"masked", "ValueError", "Exception"} ELSE {"ValueError"}

\* a plausible slip: the result is cached whether or not safe_copy is asked
get_data_caching_copy(mask, data, is_data_masked, masked, safe_copy, outcome) ==
  IF has_data_loaded(data) /\ ~safe_copy /\ masked = is_data_masked
  THEN [data |-> data, is_data_masked |-> is_data_masked, ret |-> data]
  ELSE IF masked /\ has_mask(mask) /\ outcome = "Exception"
  THEN [data |-> data, is_data_masked |-> is_data_masked, ret |-> NoData]
  ELSE LET succeeded == masked /\ has_mask(mask) /\ outcome = "masked"
           got == IF succeeded THEN Masked(mask) ELSE Whole
       IN [data |-> got, is_data_masked |-> succeeded, ret |-> got]

\* NeuroImage.get_data: self.data and self._is_data_masked after the call,
\* and what it returns (NoData for None)
get_data(mask, data, is_data_masked, masked, safe_copy, outcome) ==
  IF has_data_loaded(data) /\ ~safe_copy /\ masked = is_data_masked
  THEN [data |-> data, is_data_masked |-> is_data_masked, ret |-> data]
  ELSE IF masked /\ has_mask(mask) /\ outcome = "Exception"
  THEN [data |-> data, is_data_masked |-> is_data_masked, ret |-> NoData]
  ELSE LET succeeded == masked /\ has_mask(mask) /\ outcome = "masked"
           got == IF succeeded THEN Masked(mask) ELSE Whole
       IN IF safe_copy
          THEN [data |-> data, is_data_masked |-> is_data_masked, ret |-> got]
          ELSE [data |-> got, is_data_masked |-> succeeded, ret |-> got]

NiCall(op, masked, safe_copy, mask_img, outcome) ==
  [op |-> op, masked |-> masked, safe_copy |-> safe_copy, mask_img |-> mask_img,
   outcome |-> outcome]

Before == [data |-> self_data, is_data_masked |-> self_is_data_masked, mask |-> self_mask]

\* NeuroImage.__init__
InitImage ==
  /\ img_ndim \in {2, 3, 4}
  /\ self_mask = 0
  /\ self_data = NoData
  /\ self_is_data_masked = FALSE
  /\ ni_call = NiCall("init", FALSE, FALSE, 0, "")
  /\ ni_ret = NoData
  /\ ni_old = [data |-> NoData, is_data_masked |-> FALSE, mask |-> 0]
  /\ IdleClustering
  /\ IdleTable
  /\ IdleConfig

imageRest == <<clusteringVars, dbVars, rcVars>>

\* set_mask: load_mask and check_img_compatibility accept the image or raise
SetMask ==
  /\ \E mask_img \in MaskImages, accepted \in BOOLEAN :
       /\ ni_call' = NiCall("set_mask", FALSE, FALSE, mask_img,
                            IF accepted THEN "" ELSE "Exception")
       /\ self_mask' = IF accepted THEN mask_img ELSE self_mask
  /\ ni_ret' = NoData
  /\ ni_old' = Before
  /\ UNCHANGED <<img_ndim, self_data, self_is_data_masked, imageRest>>

GetData ==
  /\ \E masked \in BOOLEAN, safe_copy \in BOOLEAN, outcome \in MaskOutcomes(img_ndim) :
       LET attempted == /\ ~(has_data_loaded(self_data) /\ ~safe_copy
                               /\ masked = self_is_data_masked)
                        /\ masked
                        /\ has_mask(self_mask)
           done == get_data(self_mask, self_data, self_is_data_masked, masked, safe_copy,
                            outcome)
       IN /\ ni_call' = NiCall("get_data", masked, safe_copy, 0,
                               IF attempted THEN outcome ELSE "")
          /\ self_data' = done.data
          /\ self_is_data_masked' = done.is_data_masked
          /\ ni_ret' = done.ret
  /\ ni_old' = Before
  /\ UNCHANGED <<img_ndim, self_mask, imageRest>>

ClearData ==
  /\ ni_call' = NiCall("clear_data", FALSE, FALSE, 0, "")
  /\ self_data' = NoData
  /\ self_is_data_masked' = FALSE
  /\ ni_ret' = NoData
  /\ ni_old' = Before
  /\ UNCHANGED <<img_ndim, self_mask, imageRest>>

Clear ==
  /\ ni_call' = NiCall("clear", FALSE, FALSE, 0, "")
  /\ self_mask' = 0
  /\ self_data' = NoData
  /\ self_is_data_masked' = FALSE
  /\ ni_ret' = NoData
  /\ ni_old' = Before
  /\ UNCHANGED <<img_ndim, imageRest>>

NextImage == SetMask \/ GetData \/ ClearData \/ Clear

SpecImage == InitImage /\ [][NextImage]_vars

(***************************************************************************)
(* rcfile: configuration variables by section.  A section name is the      *)
(* sequence of its parts, <<"a">> for [a] and <<"a", "h">> for the section *)
(* [a:h] of the host h; a section maps variable names to values.  The      *)
(* application is named a, so its default section is [a].                  *)
(***************************************************************************)
Hostname == "h"
AppSection == <<"a">>
SectionNames == {<<"a">>, <<"b">>, <<"a", Hostname>>}
RcVariables == {"u", "v"}

\* None, as the value dict.get gives for an absent key
NoValue == "None"

\* the items a section or the environment may hold
RcItems ==
  {<<>>, ("u" :> "1"), ("u" :> "2"), ("u" :> ""), ("v" :> "1"),
   ("u" :> "1") @@ ("v" :> "2")}

RcSection(name, items) == [name |-> name, items |-> items]

\* the rcfiles of at most n sections with different names
RECURSIVE ConfigsUpTo(_)
ConfigsUpTo(n) ==
  IF n = 0 THEN {<<>>}
  ELSE LET fewer == ConfigsUpTo(n - 1)
       IN fewer \cup
          {Append(c, RcSection(name, items)) :
             c \in {d \in fewer : Len(d) = n - 1},
             name \in SectionNames, items \in RcItems}

DistinctNames(config) ==
  \A a, b \in 1..Len(config) : a # b => config[a].name # config[b].name

DictGet(d, key) == IF key \in DOMAIN d THEN d[key] ELSE NoValue

\* merge: dict_1.get(key) or dict_2.get(key) for every key of either
merge(dict_1, dict_2) ==
  [key \in DOMAIN dict_1 \cup DOMAIN dict_2 |->
     IF DictGet(dict_1, key) \notin {"", NoValue} THEN DictGet(dict_1, key)
     ELSE DictGet(dict_2, key)]

\* config.items(section) of a section the rcfiles have
SectionItems(config, section) ==
  LET at == CHOOSE a \in 1..Len(config) : config[a].name = section
  IN config[at].items

has_section(config, section) == \E a \in 1..Len(config) : config[a].name = section

\* get_config: the items of the section, under those of its host section
get_config(config, section) ==
  LET cfg_items == IF has_section(config, section) THEN SectionItems(config, section)
                   ELSE <<>>
      host_section == Append(section, Hostname)
  IN IF has_section(config, host_section)
     THEN merge(SectionItems(config, host_section), cfg_items)
     ELSE cfg_items

\* get_sections: config.sections()
get_sections(config) == [a \in 1..Len(config) |-> config[a].name]

RcReturn(section, value) ==
  [kind |-> "return", section |-> section, value |-> value, type |-> ""]
RcRaise(type) == [kind |-> "raise", section |-> <<>>, value |-> "", type |-> type]

\* rcfile with no args: the section merged with the environment, an IOError
\* when nothing is found; section None stands for the application name
rcfile(config, environ, section) ==
  LET merged == merge(merge(<<>>, get_config(config, IF section = None THEN AppSection
                                                      ELSE section)),
                      environ)
  IN IF DOMAIN merged = {} THEN [raised |-> "IOError", config |-> <<>>]
     ELSE [raised |-> "", config |-> merged]

\* get_rcfile_section: the IOError of rcfile is passed on
get_rcfile_section(config, environ, section_name) == rcfile(config, environ, section_name)

\* d[key]
Subscript(d, key) ==
  IF key \in DOMAIN d THEN RcReturn(<<>>, d[key]) ELSE RcRaise("KeyError")

\* get_rcfile_variable_value: raises when var_name is in cfg, then reads
\* cfg[var_name]
get_rcfile_variable_value(config, environ, var_name, section_name) ==
  LET cfg == get_rcfile_section(config, environ, section_name)
  IN IF cfg.raised # "" THEN RcRaise(cfg.raised)
     ELSE IF var_name \in DOMAIN cfg.config THEN RcRaise("KeyError")
     ELSE Subscript(cfg.config, var_name)

\* the loop of find_in_sections from section number a on
RECURSIVE FindFrom(_, _, _, _)
FindFrom(config, environ, var_name, a) ==
  LET sections == get_sections(config)
  IN IF a > Len(sections) THEN RcRaise("KeyError")
     ELSE LET var_value == get_rcfile_variable_value(config, environ, var_name, sections[a])
          IN IF var_value.kind = "raise" THEN FindFrom(config, environ, var_name, a + 1)
             ELSE RcReturn(sections[a], var_value.value)

find_in_sections(config, environ, var_name) ==
  IF Len(get_sections(config)) = 0 THEN RcRaise("ValueError")
  ELSE FindFrom(config, environ, var_name, 1)

RcCall(op, var_name, section_name) ==
  [op |-> op, var_name |-> var_name, section_name |-> section_name]

\* the rcfiles and the environment the application runs with
InitConfig ==
  /\ rc_config \in {c \in ConfigsUpTo(MaxSections) : DistinctNames(c)}
  /\ rc_environ \in {<<>>, ("u" :> "2")}
  /\ rc_call = <<>>
  /\ rc_ret = <<>>
  /\ IdleClustering
  /\ IdleTable
  /\ IdleImage

configRest == <<clusteringVars, dbVars, imageVars>>

GetRcfileVariableValue ==
  /\ \E var_name \in RcVariables, section_name \in {None, <<"a">>, <<"b">>} :
       /\ rc_call' = RcCall("get_rcfile_variable_value", var_name, section_name)
       /\ rc_ret' = get_rcfile_variable_value(rc_config, rc_environ, var_name, section_name)
  /\ UNCHANGED <<rc_config, rc_environ, configRest>>

FindInSections ==
  /\ \E var_name \in RcVariables :
       /\ rc_call' = RcCall("find_in_sections", var_name, None)
       /\ rc_ret' = find_in_sections(rc_config, rc_environ, var_name)
  /\ UNCHANGED <<rc_config, rc_environ, configRest>>

NextConfig == GetRcfileVariableValue \/ FindInSections

SpecConfig == InitConfig /\ [][NextConfig]_vars

(***************************************************************************)
(* Properties of the weighted edit distance.                               *)
(***************************************************************************)
Loaded == dcmf1 # None /\ dcmf2 # None
LevCalled == cls = Levenshtein /\ ret.kind # "none"
Configured == {field_weights[i].name : i \in 1..Len(field_weights)}
PresentOn(d) == \A f \in Configured : HasAttr(d[1], f)
UsableFields == {f \in Configured : HasAttr(dcmf1[1], f) /\ HasAttr(dcmf2[1], f)}
UsableWeights == SelectSeq(field_weights, LAMBDA it : it.name \in UsableFields)
IsZero(r) == r.kind = "num" /\ r.num = 0
InUnitInterval(r) == r.kind = "num" /\ 0 <= r.num /\ r.num <= r.den

\* C7: for two loaded records and a non-empty table of non-negative weights
\* with at least one usable field, transform returns a value d with
\* 0 <= d <= 1.
C7_DistanceInUnitInterval ==
  (LevCalled /\ Loaded /\ Len(field_weights) > 0 /\ UsableFields # {})
    => InUnitInterval(ret)

\* C8 as claimed: for a loaded record with all configured fields present and
\* any non-empty weight table, the distance of the record to itself is 0.
C8_SelfDistanceZeroAnyWeights ==
  (LevCalled /\ Loaded /\ dcmf1 = dcmf2 /\ PresentOn(dcmf1) /\ Len(field_weights) > 0)
    => IsZero(ret)

\* C8 as amended: for a loaded record with all configured fields present and
\* a non-empty table of non-negative weights whose sum is positive, the
\* distance of the record to itself is 0.
C8_SelfDistanceZero ==
  (/\ LevCalled /\ Loaded /\ dcmf1 = dcmf2 /\ PresentOn(dcmf1)
   /\ Len(field_weights) > 0 /\ SumValues(field_weights) > 0)
    => IsZero(ret)

\* a record with a non-empty value on every field was compared with itself
\* under two positive weights
C8_Witness ==
  /\ LevCalled /\ Loaded /\ dcmf1 = dcmf2 /\ PresentOn(dcmf1)
  /\ Len(field_weights) = 2 /\ \A i \in 1..2 : field_weights[i].weight > 0
  /\ \A f \in Fields : StrGetattrDefault(dcmf1[1], f) # <<>>
  /\ IsZero(ret)

\* C9: with all configured fields present on both records and positive
\* weights, transform returns 0 only if the records have equal string values
\* on every configured field.
C9_ZeroOnlyIfIdentical ==
  (/\ LevCalled /\ Loaded /\ PresentOn(dcmf1) /\ PresentOn(dcmf2)
   /\ Len(field_weights) > 0
   /\ \A i \in 1..Len(field_weights) : field_weights[i].weight > 0
   /\ IsZero(ret))
    => \A f \in Configured : Str(dcmf1[1][f]) = Str(dcmf2[1][f])

\* C10: when a configured field is missing on either record the comparison
\* is not aborted: it returns the distance computed from the remaining
\* fields, the weight of the missing field left out of the denominator.
C10_MissingFieldDropped ==
  (LevCalled /\ Loaded /\ Len(field_weights) > 0 /\ UsableFields # Configured)
    => /\ ret.kind = "num"
       /\ UsableFields # {} =>
            ret = LevenshteinTransform(dcmf1, dcmf2, UsableWeights)

(***************************************************************************)
(* Properties of group_dicom_files.                                        *)
(***************************************************************************)
Count(list, x) == Cardinality({i \in 1..Len(list) : list[i] = x})
Range(list) == {list[i] : i \in 1..Len(list)}
GroupsOf(groups, p) == {i \in 1..Len(groups) : p \in Range(groups[i].items)}
CountInGroups(groups, p) ==
  LET RECURSIVE Total(_)
      Total(i) == IF i = 0 THEN 0 ELSE Count(groups[i].items, p) + Total(i - 1)
  IN Total(Len(groups))
SameHeaders(p, q) ==
  \A f \in Configured : StrGetattrDefault(files[p], f) = StrGetattrDefault(files[q], f)

\* C1: the mapping group_dicom_files returns is a partition of its input:
\* every input path is in exactly one group, and the member lists together
\* hold each input path exactly as often as the input does.
C1_GroupingIsPartition ==
  pc = "done" =>
    \A p \in Paths :
      /\ CountInGroups(path_groups, p) = Count(dicom_file_paths, p)
      /\ p \in Range(dicom_file_paths) => Cardinality(GroupsOf(path_groups, p)) = 1

\* group_dicom_files returned three groups for three distinct paths
C1_Witness ==
  /\ pc = "done"
  /\ Len(path_groups) = 3
  /\ Cardinality(Range(dicom_file_paths)) = 3

\* C2: two input paths are in the same group exactly when their records have
\* equal stringified values on every header field, a missing field counting
\* as the empty string; so the set of groups is the set of the equivalence
\* classes of the input set, whatever the order of the input list.
C2_GroupsAreEqualityClasses ==
  pc = "done" =>
    /\ \A p, q \in Range(dicom_file_paths) :
         (GroupsOf(path_groups, p) \cap GroupsOf(path_groups, q) # {}) <=> SameHeaders(p, q)
    /\ {Range(path_groups[i].items) : i \in 1..Len(path_groups)}
         = {{q \in Range(dicom_file_paths) : SameHeaders(p, q)} :
              p \in Range(dicom_file_paths)}

\* two fields were compared; two paths whose records differ in value type
\* only share a group and a third path is alone in its group
C2_Witness ==
  /\ pc = "done"
  /\ Len(field_weights) = 2
  /\ Len(path_groups) = 2
  /\ \E p, q \in Range(dicom_file_paths) :
       /\ p # q /\ files[p] # files[q]
       /\ GroupsOf(path_groups, p) = GroupsOf(path_groups, q)

(***************************************************************************)
(* Properties of merge_groups.                                             *)
(***************************************************************************)
Called == merge_ret # NoCall
InRange == OffendingPairs(indices, Len(old_groups)) = {}
SameMembers(before, after) ==
  \A p \in Paths :
    /\ CountInGroups(after, p) = CountInGroups(before, p)
    /\ Cardinality(GroupsOf(after, p)) = Cardinality(GroupsOf(before, p))

MergedPair(groups, t, s) ==
  [i \in 1..(Len(groups) - 1) |->
     LET k == IF i < s + 1 THEN i ELSE i + 1
     IN IF k = t + 1
        THEN Group(groups[k].key, groups[k].items \o groups[s + 1].items)
        ELSE groups[k]]

\* C4: a call with a single pair (t, s) of distinct in-range indices leaves
\* the target with its old members followed by the old members of the
\* source, removes the key of the source, and leaves every other group and
\* the order of the groups as they were: the store has one group fewer.
C4_SinglePairMerge ==
  (Called /\ Len(indices) = 1 /\ InRange /\ indices[1][1] # indices[1][2])
    => /\ merge_ret = Ok
       /\ dicom_groups = MergedPair(old_groups, indices[1][1], indices[1][2])
       /\ Len(dicom_groups) = Len(old_groups) - 1
       /\ \A i \in 1..Len(dicom_groups) :
            dicom_groups[i].key # old_groups[indices[1][2] + 1].key

\* merge_groups(([0], [1])) was called on a store of three groups
C4_Witness ==
  /\ merge_ret = Ok
  /\ indices = <<<<0, 1>>>>
  /\ Len(old_groups) = 3
  /\ Len(dicom_groups) = 2

\* C5: a call with an index out of range fails with an index error that
\* names the offending index and the bound it violates.
C5_IndexErrorNamesIndex ==
  (Called /\ ~InRange)
    => /\ merge_ret.type = "IndexError"
       /\ \E k \in OffendingPairs(indices, Len(old_groups)), c \in 1..2 :
            LET idx == indices[k][c]
            IN \/ idx < 0 /\ {idx, 0} \subseteq merge_ret.names
               \/ idx >= Len(old_groups) /\ {idx, Len(old_groups)} \subseteq merge_ret.names

\* one call names a group as a source twice, or as a source and later as a
\* target
Overlapping ==
  \E k, l \in 1..Len(indices) :
    /\ k < l
    /\ indices[k][2] = indices[l][2] \/ indices[k][2] = indices[l][1]

C11_UnsetRecordIsIncomparable ==
  (ret.kind # "none" /\ (dcmf1 = None \/ dcmf2 = None)) => ret = Inf

\* the weighted measure was asked with an empty weight table and one record
\* unset
C11_Witness ==
  /\ cls = Levenshtein /\ field_weights = <<>>
  /\ dcmf1 # None /\ dcmf2 = None
  /\ ret = Inf

Exact(a, b) == relation[3 * (a - 1) + b]
Compared == Len(relation) = 9

\* C13: on loaded records and for every field list, exact matching is an
\* equivalence relation: every record matches itself, a match of a with b is
\* a match of b with a, and matches of a with b and of b with c give a match
\* of a with c.
C13_ExactIsEquivalence ==
  Compared =>
    /\ \A a \in 1..3 : Exact(a, a) = Bool(TRUE)
    /\ \A a, b \in 1..3 : Exact(a, b) \in {Bool(TRUE), Bool(FALSE)}
    /\ \A a, b \in 1..3 : Exact(a, b) = Exact(b, a)
    /\ \A a, b, c \in 1..3 :
         (Exact(a, b) = Bool(TRUE) /\ Exact(b, c) = Bool(TRUE)) => Exact(a, c) = Bool(TRUE)

\* three different records were compared: the first matches the second, the
\* second the third, and one of them holds an integer where another holds
\* the string of its digits
C13_Witness ==
  /\ Compared /\ Len(field_weights) > 0
  /\ Cardinality({trio[a] : a \in 1..3}) = 3
  /\ Exact(1, 2) = Bool(TRUE) /\ Exact(2, 3) = Bool(TRUE) /\ Exact(1, 3) = Bool(TRUE)
  /\ \E a, b \in 1..3 : trio[a].PatientID.t = "int" /\ trio[b].PatientID.t = "str"

(***************************************************************************)
(* Properties of calculate_file_distances and levenshtein_analysis.        *)
(***************************************************************************)
NFiles == Len(dicom_files)
Finished == dist_pc \in {"returned", "raised"}
Returned == dist_pc = "returned"

\* what a distance object of class c with the weight table fw answers for
\* the files a and b of the call
DistanceBetween(c, fw, a, b) ==
  TransformOf(c, <<files[dicom_files[a]]>>, <<files[dicom_files[b]]>>, fw, FALSE)

\* the matrix holds the distances of class c and table fw above the diagonal
\* and 0 elsewhere
HoldsDistances(c, fw) ==
  /\ DOMAIN file_dists = (1..NFiles) \X (1..NFiles)
  /\ \A a, b \in 1..NFiles :
       file_dists[<<a, b>>] =
         IF a < b THEN AsFloat16(DistanceBetween(c, fw, a, b)) ELSE Num(0, 1)

\* C14: called on N files with a table of weights, calculate_file_distances
\* returns an N x N matrix whose entry (i, j), i < j, is the configured
\* distance between file i and file j (in the element type of the matrix)
\* and whose entries with i >= j are 0; for N <= 1 it returns without raising
\* and without computing any distance.
C14_UpperTriangleHoldsDistances ==
  (call.entry = "calculate_file_distances" /\ Finished)
    => /\ (~call.field_weights.none /\ Len(field_weights) > 0)
            => (Returned /\ HoldsDistances(cls, field_weights))
       /\ NFiles <= 1 => (Returned /\ ret = NoReturn)

\* what the code does keep: whenever a call returns, its matrix holds the
\* answers of its distance object above the diagonal and 0 elsewhere, and a
\* call on at most one file returns without a comparison
MatrixFillPattern ==
  /\ (Returned /\ (NFiles <= 1 \/ ~weights_none)) => HoldsDistances(cls, field_weights)
  /\ (Finished /\ call.entry = "calculate_file_distances" /\ NFiles <= 1)
       => (Returned /\ ret = NoReturn)
  /\ (dist_pc = "raised" /\ call.entry = "calculate_file_distances")
       => call_ret \in {Raise("ValueError"), Raise("TypeError"), Raise("RuntimeError")}

\* C17: levenshtein_analysis called with field_weights=None on a facade
\* constructed with a dict of field weights compares the representatives of
\* the groups under the facade's own weights and returns the matrix of these
\* distances; it raises ValueError only when the facade's own weights are not
\* a dict.
C17_AnalysisUsesOwnWeights ==
  (call.entry = "levenshtein_analysis" /\ call.field_weights.none /\ Finished)
    => IF self_field_weights.isdict
       THEN Returned /\ HoldsDistances(self_dist_method_cls, self_field_weights.items)
       ELSE call_ret = Raise("ValueError")

(***************************************************************************)
(* Properties of dist_percentile_threshold.                                *)
(***************************************************************************)
Thresholded == perc_thr >= 0
Considered == {c \in DOMAIN dist_matrix : c[2] - c[1] >= triu_k}
Ones(m) == Cardinality({c \in DOMAIN m : m[c] = 1})

C16_ThresholdMonotoneInPercentile ==
  (prev_perc_thr >= 0 /\ prev_perc_thr <= perc_thr) => Ones(prev_upper) <= Ones(upper)

\* the same matrix was thresholded at a smaller and then at a larger
\* percentile, and the second answer has more 1-entries
C16_Witness ==
  /\ prev_perc_thr >= 0 /\ prev_perc_thr < perc_thr
  /\ 0 < Ones(prev_upper) /\ Ones(prev_upper) < Ones(upper)

(***************************************************************************)
(* Properties of get_groups_in_same_folder.                                *)
(***************************************************************************)
Representatives == {dicom_groups[i].key : i \in 1..Len(dicom_groups)}

\* C18: get_groups_in_same_folder(depth) returns exactly the pairs of
\* distinct representatives whose depth-limited folder prefixes are equal:
\* each such unordered pair once, no representative paired with itself, and
\* no pair with different depth-limited prefixes.
C18_PairsShareFolderPrefix ==
  folder_depth > 0 =>
    /\ \A i \in 1..Len(group_pairs) :
         /\ group_pairs[i][1] # group_pairs[i][2]
         /\ get_folder_subpath(group_pairs[i][1], folder_depth)
              = get_folder_subpath(group_pairs[i][2], folder_depth)
    /\ \A i, k \in 1..Len(group_pairs) :
         i # k => {group_pairs[i][1], group_pairs[i][2]} # {group_pairs[k][1], group_pairs[k][2]}
    /\ \A a, b \in Representatives :
         (a # b /\ get_folder_subpath(a, folder_depth) = get_folder_subpath(b, folder_depth))
           => \E i \in 1..Len(group_pairs) : {group_pairs[i][1], group_pairs[i][2]} = {a, b}

(***************************************************************************)
(* Properties of get_unique_field_values_per_group.                        *)
(***************************************************************************)
\* the representatives on whose record the key field of the call is absent
LackingKeyField ==
  {dicom_groups[g].key : g \in {i \in 1..Len(dicom_groups) :
                                  ~HasAttr(files[dicom_groups[i].key], unique_args[2])}}

\* C19: when key_field is given and absent on the record of some group's
\* representative, get_unique_field_values_per_group fails with a
\* missing-field error (KeyError) that names the field and the path of the
\* representative.
C19_MissingKeyFieldFails ==
  (unique_ret # NoCall /\ unique_args[2] # "None" /\ LackingKeyField # {})
    => /\ unique_ret.type = "KeyError"
       /\ \E path \in LackingKeyField : unique_ret.names = {unique_args[2], path}

(***************************************************************************)
(* Properties of move_to_folder.                                           *)
(***************************************************************************)
\* the path destf with the last n characters of its name taken off
Shortened(destf, n) ==
  [destf EXCEPT ![Len(destf)] = SubSeq(@, 1, Len(@) - n)]

\* C20: move_to_folder never overwrites an existing destination file: a
\* member is written to a path that did not exist, which is its base name in
\* the folder of its group followed by as many marker characters as it takes
\* to find a free path; the members are written to different destinations,
\* and when the call returns every member of every group has been written.
C20_NeverOverwrites ==
  /\ \A i \in 1..Len(copied) :
       LET destf == copied[i].dest
           base == BaseName(copied[i].src)
           markers == Len(BaseName(destf)) - Len(base)
       IN /\ ~copied[i].existed
          /\ markers >= 0
          /\ Shortened(destf, markers) = Append(SubSeq(destf, 1, Len(destf) - 1), base)
          /\ \A n \in 1..markers :
               /\ BaseName(destf)[Len(base) + n] = "+"
               /\ Shortened(destf, n) \in fs
  /\ \A i, k \in 1..Len(copied) : i # k => copied[i].dest # copied[k].dest
  /\ copy_pc = "returned" => Len(copied) = num_files(dicom_groups)

\* a call returned after it wrote three members with the same base name to
\* one folder: the third carries two markers
C20_Witness ==
  /\ copy_pc = "returned"
  /\ \E i \in 1..Len(copied) : BaseName(copied[i].dest) = <<"a", "+", "+">>

\* the field a groupby_field_name names: the string 'Name' (iterated by its
\* characters) or the one name of a list; "" when it names no single field
FieldAsked(groupby) ==
  IF groupby.none \/ groupby.atts = <<>> THEN ""
  ELSE IF groupby.atts = <<"N", "a", "m", "e">> THEN "Name"
  ELSE IF Len(groupby.atts) = 1 THEN groupby.atts[1]
  ELSE ""

\* the group whose folder the call is making or has made last
NamedGroup == copy_pc \in {"members", "raised"} /\ copy_g \in 1..Len(dicom_groups)

\* the name the folder of the group is to carry, as a relative path
ExpectedFolder ==
  LET dcmg == dicom_groups[copy_g].key
      field == FieldAsked(groupby_field_name)
  IN IF field = "" THEN <<BaseName(dcmg)>>
     ELSE <<get_attributes(files[dcmg], field).s>>

\* the representative record holds a non-empty string in the field asked
FieldReadable ==
  LET field == FieldAsked(groupby_field_name)
      dfile == files[dicom_groups[copy_g].key]
  IN /\ field # ""
     /\ HasAttr(dfile, field)
     /\ dfile[field].t = "str"
     /\ dfile[field].s # <<>>

NoFieldAsked == groupby_field_name.none \/ groupby_field_name.atts = <<>>

\* C21: move_to_folder names the folder of each group by the value of the
\* field groupby_field read from the representative record of the group when
\* groupby_field is a non-empty field name, and by the base name of the
\* representative when groupby_field is None or empty; the call fails at that
\* group only when a folder of this name is already there.
C21_FolderNamedByField ==
  NamedGroup /\ (NoFieldAsked \/ FieldReadable) =>
    /\ copy_pc = "members" => group_folder = ExpectedFolder
    /\ copy_pc = "raised" => ExpectedFolder \in fs

(***************************************************************************)
(* Properties of the table operations.                                     *)
(***************************************************************************)
DbCalled(op) == db_call # <<>> /\ db_call.op = op

\* the fields a call compares: unique_fields, every key of the data for None
FieldsCompared ==
  IF db_call.unique_fields.none THEN DOMAIN db_call.data ELSE db_call.unique_fields.names

\* the item has every one of the fields with the value the sample has
EqualOn(item, sample, fields) ==
  /\ fields # {}
  /\ \A f \in fields : f \in DOMAIN item /\ f \in DOMAIN sample /\ item[f] = sample[f]

Matching(table, sample, fields) ==
  {eid \in 1..Len(table) : EqualOn(table[eid], sample, fields)}

NoTwoAgree(table, fields) ==
  \A a, b \in 1..Len(table) : a # b => ~EqualOn(table[a], table[b], fields)

\* C22: an insert_unique call on a table in which no two items agree on all
\* of unique_fields leaves a table in which no two items agree on them (so
\* does any sequence of such calls); when exactly one item matches the data,
\* the call inserts nothing and returns the eid of that item, or raises
\* NotUniqueItemError when raise_if_found is True.
C22_InsertUniqueKeepsUnique ==
  DbCalled("insert_unique") /\ NoTwoAgree(old_table, FieldsCompared) =>
    /\ NoTwoAgree(db_table, FieldsCompared)
    /\ LET found == Matching(old_table, db_call.data, FieldsCompared)
       IN Cardinality(found) = 1 =>
            /\ db_table = old_table
            /\ db_ret = IF db_call.flag THEN DbRaise("NotUniqueItemError")
                        ELSE DbReturn(CHOOSE eid \in found : TRUE)

\* the second of two items that differ in x was found by its x and returned
C22_Witness ==
  /\ DbCalled("insert_unique")
  /\ Len(old_table) = 2
  /\ NoTwoAgree(old_table, FieldsCompared)
  /\ Matching(old_table, db_call.data, FieldsCompared) = {2}
  /\ db_ret = DbReturn(2)

\* what the claim has find_unique do for the items that match
ByCount(found) ==
  IF Cardinality(found) = 1 THEN DbReturn(CHOOSE eid \in found : TRUE)
  ELSE IF Cardinality(found) = 0 THEN DbReturn(NoEid)
  ELSE DbRaise("MoreThanOneItemError")

FindUniqueByCount ==
  LET found == Matching(old_table, db_call.data, FieldsCompared)
  IN /\ DbCalled("find_unique") => db_ret = ByCount(found)
     /\ DbCalled("insert_unique") /\ Cardinality(found) > 1 =>
          db_ret = DbRaise("MoreThanOneItemError")

\* the call compares at least one field, and the sample holds every one
Comparable == FieldsCompared # {} /\ FieldsCompared \subseteq DOMAIN db_call.data

UpdatedByCount(stored) ==
  LET found == Matching(old_table, db_call.data, FieldsCompared)
  IN IF Cardinality(found) = 1
     THEN LET eid == CHOOSE e \in found : TRUE
          IN /\ db_ret = DbReturn(eid)
             /\ db_ret = find_unique(old_table, db_call.data, db_call.unique_fields)
             /\ Len(db_table) = Len(old_table)
             /\ db_table[eid] = DictUpdate(old_table[eid], stored)
             /\ \A other \in 1..Len(old_table) :
                  other # eid => db_table[other] = old_table[other]
     ELSE IF Cardinality(found) = 0
     THEN /\ db_table = old_table
          /\ db_ret = IF db_call.flag THEN DbRaise("IndexError") ELSE DbReturn(NoEid)
     ELSE /\ db_table = old_table
          /\ db_ret = DbRaise("MoreThanOneItemError")

GotData(safe_copy) == ni_call.op = "get_data" /\ ni_call.safe_copy = safe_copy

\* C25: has_data_loaded() is False after construction and after
\* clear_data(); a get_data call with safe_copy=True changes neither the
\* cached data nor _is_data_masked; and a get_data call with safe_copy=False
\* leaves data loaded with _is_data_masked True exactly when masked=True was
\* asked, a mask is set and masking succeeded, that is when the call returned
\* masked data.
C25_CacheFollowsGetData ==
  /\ ni_call.op \in {"init", "clear_data"} => ~has_data_loaded(self_data)
  /\ GotData(TRUE) =>
       /\ self_data = ni_old.data
       /\ self_is_data_masked = ni_old.is_data_masked
  /\ GotData(FALSE) =>
       ((has_data_loaded(self_data) /\ self_is_data_masked)
          <=> (ni_call.masked /\ has_mask(self_mask) /\ ni_ret.kind = "masked"))

\* a copy of the masked data was handed out while the cache held the whole
\* data, which it still holds
C25_Witness ==
  /\ GotData(TRUE)
  /\ ni_ret.kind = "masked"
  /\ self_data = Whole
  /\ ~self_is_data_masked

\* C30: after any sequence of set_mask, get_data, clear_data and clear,
\* whenever get_data(masked=True, safe_copy=False) returns cached data with
\* _is_data_masked True, that data was masked with the mask that is set now.
C30_CachedMaskIsCurrent ==
  (/\ GotData(FALSE)
   /\ ni_call.masked
   /\ has_data_loaded(ni_old.data)
   /\ ni_old.is_data_masked
   /\ ni_ret = self_data
   /\ self_is_data_masked)
    => (ni_ret.kind = "masked" /\ ni_ret.by = self_mask)

(***************************************************************************)
(* Properties of the rcfile lookups.                                       *)
(***************************************************************************)
RcCalled(op) == rc_call # <<>> /\ rc_call.op = op

\* the sections, by their number, whose configuration holds the variable
Holding(var_name) ==
  {a \in 1..Len(rc_config) :
     LET cfg == rcfile(rc_config, rc_environ, rc_config[a].name)
     IN cfg.raised = "" /\ var_name \in DOMAIN cfg.config}

\* C26: get_rcfile_variable_value returns the value of var_name when
\* var_name is present in the configuration of the section and raises
\* KeyError only when it is absent; find_in_sections returns the first
\* section that holds var_name together with its value.
C26_LookupReturnsValue ==
  /\ RcCalled("get_rcfile_variable_value") =>
       LET cfg == rcfile(rc_config, rc_environ, rc_call.section_name)
       IN cfg.raised = "" =>
            IF rc_call.var_name \in DOMAIN cfg.config
            THEN rc_ret = RcReturn(<<>>, cfg.config[rc_call.var_name])
            ELSE rc_ret = RcRaise("KeyError")
  /\ RcCalled("find_in_sections") =>
       LET holding == Holding(rc_call.var_name)
       IN holding # {} =>
            LET first == CHOOSE a \in holding : \A b \in holding : a <= b
                section == rc_config[first].name
            IN rc_ret = RcReturn(section,
                                 rcfile(rc_config, rc_environ, section).config[rc_call.var_name])

(***************************************************************************)
(* Frame properties of the core.                                           *)
(***************************************************************************)
\* C27: no call of transform, exact or weighted, changes the configured
\* field_weights of the distance object, nor does any other operation after
\* construction: field_weights keeps its value through every sequence of
\* comparisons, those that drop missing fields included, so a field dropped
\* for one pair is considered again for the next pair.
C27_TransformKeepsWeights == [][field_weights' = field_weights]_vars

\* a weighted comparison met a field that its first record lacks, and the
\* field is still configured
C27_Witness ==
  /\ cls = Levenshtein
  /\ Loaded
  /\ ret.kind = "RuntimeError"
  /\ \E i \in 1..Len(field_weights) : ~HasAttr(dcmf1[1], field_weights[i].name)

GroupingStep ==
  /\ Len(path_list') <= Len(path_list)
  /\ dicom_file_paths' = dicom_file_paths
  /\ (pc = "while" /\ pc' = "scan") =>
       /\ Len(path_list') < Len(path_list)
       /\ j' = Len(path_list') - 1
  /\ (pc = "scan" /\ pc' = "scan") =>
       /\ j >= 0 /\ j < Len(path_list)
       /\ j' = j - 1
       /\ SubSeq(path_list', 1, j) = SubSeq(path_list, 1, j)
  /\ (pc = "scan" /\ pc' = "while") => j = -1 /\ path_list' = path_list

\* C29: group_dicom_files terminates for every finite input list: each outer
\* iteration removes at least the seed from the pool, each inner scan visits
\* every remaining path once, the pool shrinks until it is empty, and the
\* list of the caller is not modified.
C29_GroupingTerminates ==
  /\ <>(pc = "done" /\ path_list = <<>>)
  /\ [][GroupingStep]_vars

\* the function has returned for a list of the largest length, after more
\* than one outer iteration and a scan that visited a path without taking it
C29_Witness ==
  /\ pc = "done"
  /\ path_list = <<>>
  /\ Len(dicom_file_paths) = MaxFiles
  /\ Len(path_groups) >= 2
  /\ \E g \in 1..Len(path_groups) : Len(path_groups[g].items) >= 2

====
